---- MODULE Spec2Model ----
(***************************************************************************)
(* A model of the incremental monitoring engine of TikTokAutoDownloader:   *)
(* the error classifier (error_handler.py), the retry loops                *)
(* (retry_utils.py, tiktok_monitor.py, tiktok_downloader_advanced.py),     *)
(* the new-video filter, the per-user monitor cycle and the monitoring     *)
(* loop with its all-users-failed stop (tiktok_monitor.py).                *)
(*                                                                         *)
(* Thirteen specifications share the variables:                            *)
(*   SpecClassify  analyze_error applied to bounded error texts            *)
(*   SpecFilter    the filter step of monitor_user on bounded inputs       *)
(*   SpecRetry     each retry loop run on its own                          *)
(*   SpecStore     save_video_metadata called in any order                 *)
(*   SpecDelay     get_retry_delay on bounded ranges and attempts          *)
(*   SpecDaemon    the daemon controller of daemon_manager.py              *)
(*   SpecConfig    merge_config on bounded two-level configurations        *)
(*   SpecNotify    one iteration over one user, from the construction of   *)
(*                 the monitor, with the notifier enabled or not           *)
(*   SpecCycle     SpecNotify with the engine's progress assumed           *)
(*   SpecTerminate start_monitoring alone on a store, with progress        *)
(*   SpecManage    the management of users on a store cycles have filled   *)
(*   SpecRecheck   the program run again on one user's store, with history *)
(*   Spec          start_monitoring over a store, with the user-management *)
(*                 operations interleaved                                  *)
(***************************************************************************)
EXTENDS Integers, Sequences, FiniteSets, TLC

VARIABLES
    \* ---- error classification (error_handler.py)
    cInput,         \* the exception text under analysis: [text, lower, mode]
    cResult,        \* NoResult, or [error_type, retryable, wait]
    \* ---- one call of get_retry_delay (retry_utils.py)
    delayArgs,      \* [min_delay, max_delay, attempt, exponential]
    delay,          \* NoDelay, or the value returned
    \* ---- a retry loop in progress (one at a time: the engine is single-threaded)
    rLoop,          \* which loop runs, "none" when no loop is active
    rMax,           \* max_retries of the loop
    rRange,         \* delay_range <<min, max>> of the loop
    rRateWait,      \* rate_limit_wait of retry_on_api_error
    rAttempt,       \* the loop variable attempt (RetryContext: self.attempt)
    rStatus,        \* "running" | "returned" | "raised"
    rResult,        \* the value returned, or the exception raised
    rArg,           \* the arguments of the call: [username, video]
    rSlept,         \* seconds passed to time.sleep so far, in total
    rLog,           \* the calls of the action and the sleeps, in order
    \* ---- persistent store (sqlite)
    monitored_users,\* table monitored_users: username -> row
    videos,         \* table videos: a set of rows
    clock,          \* datetime.now(), as a logical clock: it ticks when the loop waits
    \* ---- start_monitoring
    pc,             \* position of the engine
    users,          \* the list read by get_monitored_users()
    max_iterations, \* the argument of start_monitoring
    iteration,
    consecutive_all_failed,
    uidx,           \* position of the for loop over users (1-based)
    total_downloaded,
    failed_users,
    non_retryable_errors,
    sent,           \* titles handed to notifier.send, in order
    \* ---- monitor_user
    username,
    last_timestamp,
    fetched,        \* the list returned by get_user_videos
    new_videos,
    vidx,           \* position of the for loop over new_videos (1-based)
    downloaded,
    newest_timestamp,
    download_error,
    ret,            \* the pair returned by monitor_user
    saves,          \* per video id, the metadata of its latest save_video_metadata
    \* ---- the daemon and its controller (daemon_manager.py)
    platform,       \* os.name: "posix" or "nt"
    pid_file,       \* the pid written in tiktok-monitor.pid, NoPid when there is no file
    procs,          \* the process table: pid -> what the process is doing
    dpc,            \* position of the controller inside start_daemon, stop_daemon, get_status
    pid,            \* the local pid (and the psutil.Process made of it)
    poll_i,         \* the loop variable i of the wait in stop_daemon
    signals,        \* what the call in progress did to the process, in order
    dRet,           \* the last value returned by a call of the controller
    dCalls,         \* the number of calls that have returned
    foreground,     \* the processes of main that run start_monitoring themselves
    \* ---- the notifier (notification_manager.py)
    notifier_enabled,        \* notifier.enabled
    NOTIFICATIONS_AVAILABLE, \* plyer could be imported
    delivered,      \* titles notification.notify has shown, in order
    send_ret,       \* the value returned by the last call of notifier.send
    \* ---- one call of merge_config (config_manager.py)
    default_config, \* the argument default
    user_config,    \* the argument user
    merged,         \* NotMerged, or the mapping returned
    \* ---- the management of users (tiktok_monitor.py)
    mCall,          \* the last call: [op, username, ret, video_count]
    \* ---- history of the batches, kept by no code
    skipped,        \* ids that failed in a batch that stored a newer or equal timestamp
    pending,        \* ids that failed above all the batch stored, not listed since
    runs            \* the times the program was started again on the database

classifyVars == <<cInput, cResult>>
retryVars == <<rLoop, rMax, rRange, rRateWait, rAttempt, rStatus, rResult, rArg, rSlept, rLog>>
storeVars == <<monitored_users, videos, clock, saves>>
loopVars == <<pc, users, max_iterations, iteration, consecutive_all_failed, uidx,
              total_downloaded, failed_users, non_retryable_errors, sent>>
cycleVars == <<username, last_timestamp, fetched, new_videos, vidx, downloaded,
               newest_timestamp, download_error, ret>>
delayVars == <<delayArgs, delay>>
daemonVars == <<platform, pid_file, procs, dpc, pid, poll_i, signals, dRet, dCalls, foreground>>
configVars == <<default_config, user_config, merged>>
notifyVars == <<notifier_enabled, NOTIFICATIONS_AVAILABLE, delivered, send_ret>>
manageVars == <<mCall>>
historyVars == <<skipped, pending, runs>>
engineVars == <<classifyVars, configVars, notifyVars, delayVars, retryVars, storeVars, loopVars, cycleVars, manageVars, historyVars>>
vars == <<classifyVars, configVars, notifyVars, delayVars, daemonVars, retryVars, storeVars, loopVars, cycleVars, manageVars, historyVars>>

\* Python's None.
NoneVal == "None"

\* No management call made yet.
NoCall == [op |-> "none", username |-> NoneVal, ret |-> FALSE, video_count |-> 0]
InitManageIdle == mCall = NoCall

\* No batch has run and the program was started once.
InitHistoryIdle == skipped = {} /\ pending = {} /\ runs = 0

Min(a, b) == IF a <= b THEN a ELSE b
Max(a, b) == IF a >= b THEN a ELSE b

(***************************************************************************)
(* Strings.  str.lower() and the substring test `keyword in error_msg`.    *)
(***************************************************************************)
UpperChars == <<"A","B","C","D","E","F","G","H","I","J","K","L","M",
                "N","O","P","Q","R","S","T","U","V","W","X","Y","Z">>
LowerChars == <<"a","b","c","d","e","f","g","h","i","j","k","l","m",
                "n","o","p","q","r","s","t","u","v","w","x","y","z">>

IndexIn(c, chars) == IF \E i \in 1..Len(chars) : chars[i] = c
                     THEN CHOOSE i \in 1..Len(chars) : chars[i] = c
                     ELSE 0

LowerChar(c) == IF IndexIn(c, UpperChars) > 0 THEN LowerChars[IndexIn(c, UpperChars)] ELSE c
UpperChar(c) == IF IndexIn(c, LowerChars) > 0 THEN UpperChars[IndexIn(c, LowerChars)] ELSE c

RECURSIVE Lower(_)
Lower(s) == IF Len(s) = 0 THEN ""
            ELSE LowerChar(SubSeq(s, 1, 1)) \o Lower(SubSeq(s, 2, Len(s)))

RECURSIVE Upper(_)
Upper(s) == IF Len(s) = 0 THEN ""
            ELSE UpperChar(SubSeq(s, 1, 1)) \o Upper(SubSeq(s, 2, Len(s)))

\* keyword in error_msg
Contains(text, keyword) ==
    \E i \in 1..(Len(text) - Len(keyword) + 1) : SubSeq(text, i, i + Len(keyword) - 1) = keyword

\* any(keyword in error_msg for keyword in keywords)
AnyKeyword(error_msg, keywords) == \E i \in 1..Len(keywords) : Contains(error_msg, keywords[i])

(***************************************************************************)
(* error_handler.py                                                        *)
(***************************************************************************)
ErrorType == [GEO_RESTRICTION |-> "geo_restriction",
              PRIVATE_VIDEO   |-> "private_video",
              DELETED_VIDEO   |-> "deleted_video",
              RATE_LIMIT      |-> "rate_limit",
              NETWORK         |-> "network",
              INVALID_URL     |-> "invalid_url",
              PERMISSION      |-> "permission",
              DISK_SPACE      |-> "disk_space",
              COOKIES_NEEDED  |-> "cookies_needed",
              UNKNOWN         |-> "unknown"]

GeoKeywords == <<"geo", "not available in your", "region", "country">>
PrivateKeywords == <<"private", "unavailable", "this video is private">>
DeletedKeywords == <<"removed", "deleted", "no longer available", "not found", "404">>
RateLimitKeywords == <<"rate limit", "429", "too many requests", "slow down">>
NetworkKeywords == <<"connection", "timeout", "timed out", "network", "unreachable", "no internet">>
InvalidUrlKeywords == <<"invalid url", "malformed", "unsupported url">>
PermissionKeywords == <<"permission", "access denied", "forbidden", "403">>
DiskSpaceKeywords == <<"disk", "space", "no space left", "storage">>
CookiesKeywords == <<"sign in", "login", "authentication", "unauthorized",
                     "requiring login", "cookies", "unable to extract",
                     "user id", "channel_id", "--cookies">>

\* A variant of analyze_error that forgets str.lower().
analyze_error_case_sensitive(exception) ==
    LET error_msg == exception IN
    IF AnyKeyword(error_msg, GeoKeywords) THEN ErrorType.GEO_RESTRICTION
    ELSE IF AnyKeyword(error_msg, PrivateKeywords) THEN ErrorType.PRIVATE_VIDEO
    ELSE IF AnyKeyword(error_msg, DeletedKeywords) THEN ErrorType.DELETED_VIDEO
    ELSE IF AnyKeyword(error_msg, RateLimitKeywords) THEN ErrorType.RATE_LIMIT
    ELSE IF AnyKeyword(error_msg, NetworkKeywords) THEN ErrorType.NETWORK
    ELSE IF AnyKeyword(error_msg, InvalidUrlKeywords) THEN ErrorType.INVALID_URL
    ELSE IF AnyKeyword(error_msg, PermissionKeywords) THEN ErrorType.PERMISSION
    ELSE IF AnyKeyword(error_msg, DiskSpaceKeywords) THEN ErrorType.DISK_SPACE
    ELSE IF AnyKeyword(error_msg, CookiesKeywords) THEN ErrorType.COOKIES_NEEDED
    ELSE ErrorType.UNKNOWN

\* A variant of analyze_error that tests the network keywords before the
\* rate-limit keywords.
analyze_error_network_first(exception) ==
    LET error_msg == Lower(exception) IN
    IF AnyKeyword(error_msg, GeoKeywords) THEN ErrorType.GEO_RESTRICTION
    ELSE IF AnyKeyword(error_msg, PrivateKeywords) THEN ErrorType.PRIVATE_VIDEO
    ELSE IF AnyKeyword(error_msg, DeletedKeywords) THEN ErrorType.DELETED_VIDEO
    ELSE IF AnyKeyword(error_msg, NetworkKeywords) THEN ErrorType.NETWORK
    ELSE IF AnyKeyword(error_msg, RateLimitKeywords) THEN ErrorType.RATE_LIMIT
    ELSE IF AnyKeyword(error_msg, InvalidUrlKeywords) THEN ErrorType.INVALID_URL
    ELSE IF AnyKeyword(error_msg, PermissionKeywords) THEN ErrorType.PERMISSION
    ELSE IF AnyKeyword(error_msg, DiskSpaceKeywords) THEN ErrorType.DISK_SPACE
    ELSE IF AnyKeyword(error_msg, CookiesKeywords) THEN ErrorType.COOKIES_NEEDED
    ELSE ErrorType.UNKNOWN

\* ErrorHandler.analyze_error: the error_type of the UserFriendlyError returned.
analyze_error(exception) ==
    LET error_msg == Lower(exception) IN
    IF AnyKeyword(error_msg, GeoKeywords) THEN ErrorType.GEO_RESTRICTION
    ELSE IF AnyKeyword(error_msg, PrivateKeywords) THEN ErrorType.PRIVATE_VIDEO
    ELSE IF AnyKeyword(error_msg, DeletedKeywords) THEN ErrorType.DELETED_VIDEO
    ELSE IF AnyKeyword(error_msg, RateLimitKeywords) THEN ErrorType.RATE_LIMIT
    ELSE IF AnyKeyword(error_msg, NetworkKeywords) THEN ErrorType.NETWORK
    ELSE IF AnyKeyword(error_msg, InvalidUrlKeywords) THEN ErrorType.INVALID_URL
    ELSE IF AnyKeyword(error_msg, PermissionKeywords) THEN ErrorType.PERMISSION
    ELSE IF AnyKeyword(error_msg, DiskSpaceKeywords) THEN ErrorType.DISK_SPACE
    ELSE IF AnyKeyword(error_msg, CookiesKeywords) THEN ErrorType.COOKIES_NEEDED
    ELSE ErrorType.UNKNOWN

\* A variant of is_retryable that keeps unknown among the retryable types.
is_retryable_with_unknown(error_type) ==
    error_type \in {ErrorType.NETWORK, ErrorType.RATE_LIMIT, ErrorType.UNKNOWN}

\* ErrorHandler.is_retryable, on the error_type of the error.
is_retryable(error_type) ==
    LET retryable_types == {ErrorType.NETWORK, ErrorType.RATE_LIMIT}
        non_retryable_types == {ErrorType.DELETED_VIDEO, ErrorType.PRIVATE_VIDEO,
                                ErrorType.INVALID_URL, ErrorType.DISK_SPACE,
                                ErrorType.GEO_RESTRICTION, ErrorType.COOKIES_NEEDED,
                                ErrorType.PERMISSION, ErrorType.UNKNOWN}
    IN IF error_type \in non_retryable_types THEN FALSE
       ELSE IF error_type \in retryable_types THEN TRUE
       ELSE FALSE

\* ErrorHandler.get_wait_time, on the error_type of the error.
get_wait_time(error_type) ==
    CASE error_type = ErrorType.RATE_LIMIT -> 300
      [] error_type = ErrorType.NETWORK -> 30
      [] error_type = ErrorType.GEO_RESTRICTION -> 60
      [] error_type = ErrorType.UNKNOWN -> 45
      [] OTHER -> 30

(***************************************************************************)
(* SpecClassify: analyze_error on bounded error texts.                     *)
(***************************************************************************)
\* Number of message fragments joined into one error text.
MaxWords == 2

\* Lower-case message fragments, one per error kind and one of no kind.
Fragments == {"video not available in your country",
              "this video is private",
              "video has been removed",
              "rate limit exceeded",
              "connection timed out",
              "unsupported url",
              "access denied",
              "no space left on device",
              "sign in to continue",
              "random xyz error"}

\* Messages of the tests and of the documentation, each with its lower-case form.
Samples == {[text |-> "HTTP Error 429 Too Many Requests", lower |-> "http error 429 too many requests"],
            [text |-> "This video is private", lower |-> "this video is private"],
            [text |-> "404 Not Found", lower |-> "404 not found"],
            [text |-> "Network is unreachable", lower |-> "network is unreachable"],
            [text |-> "geo-blocked content", lower |-> "geo-blocked content"],
            [text |-> "Content no longer available", lower |-> "content no longer available"],
            [text |-> "Connection refused", lower |-> "connection refused"],
            [text |-> "Rate limit exceeded", lower |-> "rate limit exceeded"],
            [text |-> "This content is not available in your region",
             lower |-> "this content is not available in your region"]}

RECURSIVE Joined(_)
Joined(n) == IF n = 1 THEN Fragments
             ELSE Joined(n - 1) \cup {a \o " " \o b : a \in Joined(n - 1), b \in Fragments}

Cased(mode, lower) ==
    CASE mode = "lower" -> lower
      [] mode = "upper" -> Upper(lower)
      [] mode = "capitalized" -> UpperChar(SubSeq(lower, 1, 1)) \o SubSeq(lower, 2, Len(lower))

ErrorInputs ==
    {[text |-> Cased(m, l), lower |-> l, mode |-> m] :
        m \in {"lower", "upper", "capitalized"}, l \in Joined(MaxWords)}
    \cup {[text |-> s.text, lower |-> s.lower, mode |-> "sample"] : s \in Samples}

NoInput == [text |-> "", lower |-> "", mode |-> NoneVal]
NoResult == [error_type |-> NoneVal, retryable |-> FALSE, wait |-> 0]

InitClassifyIdle == cInput = NoInput /\ cResult = NoResult

\* handle_error(e, ...) followed by is_retryable_error and get_retry_wait_time,
\* as the retry loops call them.
Classify ==
    /\ cInput # NoInput
    /\ cResult = NoResult
    /\ LET error_type == analyze_error(cInput.text) IN
       cResult' = [error_type |-> error_type,
                   retryable |-> is_retryable(error_type),
                   wait |-> get_wait_time(error_type)]
    /\ UNCHANGED <<cInput, configVars, notifyVars, delayVars, daemonVars, manageVars, historyVars, retryVars, storeVars, loopVars, cycleVars>>

(***************************************************************************)
(* Values exchanged with the extractor (yt-dlp) and Python's None per type.*)
(***************************************************************************)
\* Bound of the extractor's answers: the length of a listing
\* (playlistend = max_videos_per_check).
MaxVideos == 2

Usernames == {"u1", "u2"}

NoExc == [cls |-> NoneVal, msg |-> ""]
NoError == [error_type |-> NoneVal, technical_details |-> ""]
NoVideo == [id |-> NoneVal, timestamp |-> 0]
NoInfo == [id |-> NoneVal, timestamp |-> 0, uploader |-> NoneVal]
NoReturn == [videos |-> <<>>, info |-> NoInfo, value |-> NoneVal, error |-> NoError, exc |-> NoExc]
NoArg == [username |-> NoneVal, video |-> NoVideo]

\* The exceptions an action may raise: a network failure, a rate limit, and
\* an error that no retry resolves.
Exceptions == {[cls |-> "ConnectionError", msg |-> "Connection timed out"],
               [cls |-> "DownloadError", msg |-> "HTTP Error 429 Too Many Requests"],
               [cls |-> "DownloadError", msg |-> "This video is private"]}

\* The videos upstream, as the entries of a profile listing: the id and the
\* timestamp.  A missing timestamp reads as 0 (entry.get('timestamp', 0)).
Entries(u) == IF u = "u1"
              THEN {[id |-> "a", timestamp |-> 1],
                    [id |-> "b", timestamp |-> 2],
                    [id |-> "c", timestamp |-> 0]}
              ELSE {[id |-> "d", timestamp |-> 1]}

VideoIds == {e.id : e \in UNION {Entries(u) : u \in Usernames}}

\* The listings the extractor may return for a profile: at most MaxVideos
\* entries, no id twice.
Listings(u) == {l \in UNION {[1..n -> Entries(u)] : n \in 0..MaxVideos} :
                   \A i, j \in 1..Len(l) : i # j => l[i].id # l[j].id}

\* videos.sort(key=lambda x: x['timestamp'], reverse=True): a stable sort.
RECURSIVE InsertDesc(_, _)
InsertDesc(x, sorted) ==
    IF sorted = <<>> THEN <<x>>
    ELSE IF Head(sorted).timestamp >= x.timestamp
         THEN <<Head(sorted)>> \o InsertDesc(x, Tail(sorted))
         ELSE <<x>> \o sorted

RECURSIVE SortDesc(_)
SortDesc(l) == IF l = <<>> THEN <<>>
               ELSE InsertDesc(l[Len(l)], SortDesc(SubSeq(l, 1, Len(l) - 1)))

\* The info extract_info(url, download=True) returns for a listed video: the
\* extractor reports the id and the timestamp it listed.
InfoFor(arg) == [id |-> arg.video.id, timestamp |-> arg.video.timestamp,
                 uploader |-> arg.username]

\* The UserFriendlyError of each exception of Exceptions, by analyze_error.
UserErrors == [e \in Exceptions |->
                  [error_type |-> analyze_error(e.msg), technical_details |-> e.msg]]

\* handle_error(e, ...): the UserFriendlyError of str(e).
handle_error(e) == UserErrors[e]

(***************************************************************************)
(* retry_utils.py                                                          *)
(***************************************************************************)
RATE_LIMIT_WAIT == 300
USE_EXPONENTIAL_BACKOFF == TRUE
BACKOFF_MULTIPLIER == 2

\* A variant of get_retry_delay without the cap at three times max_delay.
get_retry_delay_uncapped(min_delay, max_delay, attempt, exponential) ==
    IF exponential /\ USE_EXPONENTIAL_BACKOFF
    THEN LET multiplier == BACKOFF_MULTIPLIER ^ (attempt - 1) IN
         (min_delay * multiplier) .. (max_delay * multiplier)
    ELSE min_delay .. max_delay

\* A variant of get_retry_delay that backs off whatever the flag says.
get_retry_delay_always_exponential(min_delay, max_delay, attempt, exponential) ==
    LET multiplier == BACKOFF_MULTIPLIER ^ (attempt - 1) IN
    Min(min_delay * multiplier, max_delay * 3) .. Min(max_delay * multiplier, max_delay * 3)

\* A variant of get_retry_delay that divides by the multiplier.
get_retry_delay_shrinking(min_delay, max_delay, attempt, exponential) ==
    IF exponential /\ USE_EXPONENTIAL_BACKOFF
    THEN LET multiplier == BACKOFF_MULTIPLIER ^ (attempt - 1) IN
         (min_delay \div multiplier) .. (max_delay \div multiplier)
    ELSE min_delay .. max_delay

\* get_retry_delay: the values int(delay) can take.  random.uniform draws a
\* real base in [min_delay, max_delay]; for integer bounds the truncated,
\* capped product takes every integer between the images of the two ends.
get_retry_delay(min_delay, max_delay, attempt, exponential) ==
    IF exponential /\ USE_EXPONENTIAL_BACKOFF
    THEN LET multiplier == BACKOFF_MULTIPLIER ^ (attempt - 1) IN
         Min(min_delay * multiplier, max_delay * 3) .. Min(max_delay * multiplier, max_delay * 3)
    ELSE min_delay .. max_delay

\* A call of get_retry_delay: no call in progress, and the call itself.
NoDelay == -1
NoDelayArgs == [min_delay |-> 0, max_delay |-> 0, attempt |-> 0, exponential |-> FALSE]
InitDelayIdle == delayArgs = NoDelayArgs /\ delay = NoDelay

GetRetryDelay ==
    /\ delayArgs # NoDelayArgs
    /\ delay = NoDelay
    /\ delay' \in get_retry_delay(delayArgs.min_delay, delayArgs.max_delay,
                                  delayArgs.attempt, delayArgs.exponential)
    /\ UNCHANGED <<delayArgs, classifyVars, configVars, notifyVars, daemonVars, manageVars, historyVars, retryVars, storeVars, loopVars, cycleVars>>

\* except (ConnectionError, TimeoutError, OSError)
IsNetworkException(e) == e.cls \in {"ConnectionError", "TimeoutError", "OSError"}

temporary_errors == <<"timeout", "timed out", "connection", "temporary",
                      "unavailable", "try again", "503", "502", "504">>

\* 'rate limit' in error_msg or '429' in error_msg or 'too many' in error_msg
IsRateLimitMessage(error_msg) ==
    Contains(error_msg, "rate limit") \/ Contains(error_msg, "429") \/ Contains(error_msg, "too many")

\* Entries of rLog.
Called(e) == [ev |-> "call", exc |-> e]
Slept == [ev |-> "sleep", exc |-> NoExc]

\* max_retries = 3 of get_user_videos and of download_video.
EngineMaxRetries == 3

InitRetryIdle ==
    /\ rLoop = "none" /\ rMax = 0 /\ rRange = <<0, 0>> /\ rRateWait = 0
    /\ rAttempt = 0 /\ rStatus = "none" /\ rResult = NoReturn /\ rArg = NoArg
    /\ rSlept = 0 /\ rLog = <<>>

\* The state of the retry variables when `loop` is entered.
EnterLoop(loop, arg, max_retries, delay_range, rate_limit_wait) ==
    /\ rLoop' = loop
    /\ rArg' = arg
    /\ rMax' = max_retries
    /\ rRange' = delay_range
    /\ rRateWait' = rate_limit_wait
    /\ rAttempt' = IF loop = "RetryContext" THEN 0 ELSE 1
    /\ rStatus' = "running"
    /\ rResult' = NoReturn
    /\ rSlept' = 0
    /\ rLog' = <<>>

\* A variant of get_user_videos whose test reads attempt <= max_retries.
GetUserVideosAttemptOffByOne ==
    /\ rLoop = "get_user_videos" /\ rStatus = "running"
    /\ \/ \E raw \in Listings(rArg.username) :
            /\ rResult' = [NoReturn EXCEPT !.videos = SortDesc(raw)]
            /\ rStatus' = "returned"
            /\ rLog' = Append(rLog, Called(NoExc))
            /\ UNCHANGED <<rAttempt, rSlept>>
       \/ \E e \in Exceptions :
            LET user_error == handle_error(e) IN
            IF rAttempt <= rMax /\ is_retryable(user_error.error_type)
            THEN /\ rLog' = rLog \o <<Called(e), Slept>>
                 /\ rSlept' = rSlept + get_wait_time(user_error.error_type)
                 /\ rAttempt' = rAttempt + 1
                 /\ UNCHANGED <<rStatus, rResult>>
            ELSE /\ rLog' = Append(rLog, Called(e))
                 /\ rResult' = [NoReturn EXCEPT !.error = user_error]
                 /\ rStatus' = "returned"
                 /\ UNCHANGED <<rAttempt, rSlept>>
    /\ UNCHANGED <<rLoop, rMax, rRange, rRateWait, rArg>>
    /\ UNCHANGED <<classifyVars, configVars, notifyVars, daemonVars, manageVars, historyVars, delayVars, storeVars, loopVars, cycleVars>>

\* A variant of get_user_videos that returns last_error with the videos.
GetUserVideosAttemptKeepingError ==
    /\ rLoop = "get_user_videos" /\ rStatus = "running"
    /\ \/ \E raw \in Listings(rArg.username) :
            /\ rResult' = [NoReturn EXCEPT
                             !.videos = SortDesc(raw),
                             !.error = IF rLog = <<>> THEN NoError
                                       ELSE handle_error(rLog[Len(rLog) - 1].exc)]
            /\ rStatus' = "returned"
            /\ rLog' = Append(rLog, Called(NoExc))
            /\ UNCHANGED <<rAttempt, rSlept>>
       \/ \E e \in Exceptions :
            LET user_error == handle_error(e) IN
            IF rAttempt < rMax /\ is_retryable(user_error.error_type)
            THEN /\ rLog' = rLog \o <<Called(e), Slept>>
                 /\ rSlept' = rSlept + get_wait_time(user_error.error_type)
                 /\ rAttempt' = rAttempt + 1
                 /\ UNCHANGED <<rStatus, rResult>>
            ELSE /\ rLog' = Append(rLog, Called(e))
                 /\ rResult' = [NoReturn EXCEPT !.error = user_error]
                 /\ rStatus' = "returned"
                 /\ UNCHANGED <<rAttempt, rSlept>>
    /\ UNCHANGED <<rLoop, rMax, rRange, rRateWait, rArg>>
    /\ UNCHANGED <<classifyVars, configVars, notifyVars, daemonVars, manageVars, historyVars, delayVars, storeVars, loopVars, cycleVars>>

\* One pass of `for attempt in range(1, max_retries + 1)` in get_user_videos.
GetUserVideosAttempt ==
    /\ rLoop = "get_user_videos" /\ rStatus = "running"
    /\ \/ \E raw \in Listings(rArg.username) :
            /\ rResult' = [NoReturn EXCEPT !.videos = SortDesc(raw)]
            /\ rStatus' = "returned"
            /\ rLog' = Append(rLog, Called(NoExc))
            /\ UNCHANGED <<rAttempt, rSlept>>
       \/ \E e \in Exceptions :
            LET user_error == handle_error(e) IN
            IF rAttempt < rMax /\ is_retryable(user_error.error_type)
            THEN /\ rLog' = rLog \o <<Called(e), Slept>>
                 /\ rSlept' = rSlept + get_wait_time(user_error.error_type)
                 /\ rAttempt' = rAttempt + 1
                 /\ UNCHANGED <<rStatus, rResult>>
            ELSE /\ rLog' = Append(rLog, Called(e))
                 /\ rResult' = [NoReturn EXCEPT !.error = user_error]
                 /\ rStatus' = "returned"
                 /\ UNCHANGED <<rAttempt, rSlept>>
    /\ UNCHANGED <<rLoop, rMax, rRange, rRateWait, rArg>>
    /\ UNCHANGED <<classifyVars, configVars, notifyVars, daemonVars, manageVars, historyVars, delayVars, storeVars, loopVars, cycleVars>>

\* One pass of the for loop of download_video.
DownloadVideoAttempt ==
    /\ rLoop = "download_video" /\ rStatus = "running"
    /\ \/ /\ rResult' = [NoReturn EXCEPT !.info = InfoFor(rArg), !.value = "filename"]
          /\ rStatus' = "returned"
          /\ rLog' = Append(rLog, Called(NoExc))
          /\ UNCHANGED <<rAttempt, rSlept>>
       \/ \E e \in Exceptions :
            LET user_error == handle_error(e) IN
            IF rAttempt < rMax /\ is_retryable(user_error.error_type)
            THEN /\ rLog' = rLog \o <<Called(e), Slept>>
                 /\ rSlept' = rSlept + get_wait_time(user_error.error_type)
                 /\ rAttempt' = rAttempt + 1
                 /\ UNCHANGED <<rStatus, rResult>>
            ELSE /\ rLog' = Append(rLog, Called(e))
                 /\ rResult' = [NoReturn EXCEPT !.error = user_error]
                 /\ rStatus' = "returned"
                 /\ UNCHANGED <<rAttempt, rSlept>>
    /\ UNCHANGED <<rLoop, rMax, rRange, rRateWait, rArg>>
    /\ UNCHANGED <<classifyVars, configVars, notifyVars, daemonVars, manageVars, historyVars, delayVars, storeVars, loopVars, cycleVars>>

\* One pass of the for loop of TikTokDownloader.download.
DownloadAttempt ==
    /\ rLoop = "download" /\ rStatus = "running"
    /\ \/ /\ rResult' = [NoReturn EXCEPT !.value = "filename"]
          /\ rStatus' = "returned"
          /\ rLog' = Append(rLog, Called(NoExc))
          /\ UNCHANGED <<rAttempt, rSlept>>
       \/ \E e \in Exceptions :
            LET user_error == handle_error(e) IN
            IF rAttempt < rMax /\ is_retryable(user_error.error_type)
            THEN /\ rLog' = rLog \o <<Called(e), Slept>>
                 /\ rSlept' = rSlept + get_wait_time(user_error.error_type)
                 /\ rAttempt' = rAttempt + 1
                 /\ UNCHANGED <<rStatus, rResult>>
            ELSE /\ rLog' = Append(rLog, Called(e))
                 /\ rResult' = NoReturn
                 /\ rStatus' = "returned"
                 /\ UNCHANGED <<rAttempt, rSlept>>
    /\ UNCHANGED <<rLoop, rMax, rRange, rRateWait, rArg>>
    /\ UNCHANGED <<classifyVars, configVars, notifyVars, daemonVars, manageVars, historyVars, delayVars, storeVars, loopVars, cycleVars>>

\* One pass of the for loop of the wrapper of retry_on_network_error.
RetryOnNetworkErrorAttempt ==
    /\ rLoop = "retry_on_network_error" /\ rStatus = "running"
    /\ \/ /\ rResult' = [NoReturn EXCEPT !.value = "result"]
          /\ rStatus' = "returned"
          /\ rLog' = Append(rLog, Called(NoExc))
          /\ UNCHANGED <<rAttempt, rSlept>>
       \/ \E e \in Exceptions :
            IF IsNetworkException(e) /\ rAttempt < rMax
            THEN \E wait_time \in get_retry_delay(rRange[1], rRange[2], rAttempt, TRUE) :
                 /\ rLog' = rLog \o <<Called(e), Slept>>
                 /\ rSlept' = rSlept + wait_time
                 /\ rAttempt' = rAttempt + 1
                 /\ UNCHANGED <<rStatus, rResult>>
            ELSE \* raise last_exception, or an exception the except clause does not catch
                 /\ rLog' = Append(rLog, Called(e))
                 /\ rResult' = [NoReturn EXCEPT !.exc = e]
                 /\ rStatus' = "raised"
                 /\ UNCHANGED <<rAttempt, rSlept>>
    /\ UNCHANGED <<rLoop, rMax, rRange, rRateWait, rArg>>
    /\ UNCHANGED <<classifyVars, configVars, notifyVars, daemonVars, manageVars, historyVars, delayVars, storeVars, loopVars, cycleVars>>

\* One pass of the for loop of the wrapper of retry_on_api_error.
RetryOnApiErrorAttempt ==
    /\ rLoop = "retry_on_api_error" /\ rStatus = "running"
    /\ \/ /\ rResult' = [NoReturn EXCEPT !.value = "result"]
          /\ rStatus' = "returned"
          /\ rLog' = Append(rLog, Called(NoExc))
          /\ UNCHANGED <<rAttempt, rSlept>>
       \/ \E e \in Exceptions :
            LET error_msg == Lower(e.msg)
                is_temporary == AnyKeyword(error_msg, temporary_errors)
            IN
            IF IsRateLimitMessage(error_msg)
            THEN \* time.sleep(rate_limit_wait); continue
                 /\ rLog' = rLog \o <<Called(e), Slept>>
                 /\ rSlept' = rSlept + rRateWait
                 /\ IF rAttempt < rMax
                    THEN /\ rAttempt' = rAttempt + 1
                         /\ UNCHANGED <<rStatus, rResult>>
                    ELSE \* the for loop is exhausted: return None
                         /\ rResult' = NoReturn
                         /\ rStatus' = "returned"
                         /\ UNCHANGED rAttempt
            ELSE IF is_temporary /\ rAttempt < rMax
            THEN \E wait_time \in get_retry_delay(rRange[1], rRange[2], rAttempt, TRUE) :
                 /\ rLog' = rLog \o <<Called(e), Slept>>
                 /\ rSlept' = rSlept + wait_time
                 /\ rAttempt' = rAttempt + 1
                 /\ UNCHANGED <<rStatus, rResult>>
            ELSE /\ rLog' = Append(rLog, Called(e))
                 /\ rResult' = [NoReturn EXCEPT !.exc = e]
                 /\ rStatus' = "raised"
                 /\ UNCHANGED <<rAttempt, rSlept>>
    /\ UNCHANGED <<rLoop, rMax, rRange, rRateWait, rArg>>
    /\ UNCHANGED <<classifyVars, configVars, notifyVars, daemonVars, manageVars, historyVars, delayVars, storeVars, loopVars, cycleVars>>

\* One pass of `while retry.should_retry()` in the documented use of
\* RetryContext: should_retry, the body, then success() and break, or failed(e).
RetryContextPass ==
    /\ rLoop = "RetryContext" /\ rStatus = "running"
    /\ IF rAttempt + 1 <= rMax
       THEN /\ rAttempt' = rAttempt + 1
            /\ \/ /\ rResult' = [NoReturn EXCEPT !.value = "result"]
                  /\ rStatus' = "returned"
                  /\ rLog' = Append(rLog, Called(NoExc))
                  /\ UNCHANGED rSlept
               \/ \E e \in Exceptions :
                    IF rAttempt' < rMax
                    THEN \E wait_time \in get_retry_delay(rRange[1], rRange[2], rAttempt', TRUE) :
                         /\ rLog' = rLog \o <<Called(e), Slept>>
                         /\ rSlept' = rSlept + wait_time
                         /\ UNCHANGED <<rStatus, rResult>>
                    ELSE /\ rLog' = Append(rLog, Called(e))
                         /\ rResult' = [NoReturn EXCEPT !.exc = e]
                         /\ rStatus' = "raised"
                         /\ UNCHANGED rSlept
       ELSE /\ rAttempt' = rAttempt + 1
            /\ rStatus' = "returned"
            /\ UNCHANGED <<rResult, rLog, rSlept>>
    /\ UNCHANGED <<rLoop, rMax, rRange, rRateWait, rArg>>
    /\ UNCHANGED <<classifyVars, configVars, notifyVars, daemonVars, manageVars, historyVars, delayVars, storeVars, loopVars, cycleVars>>

(***************************************************************************)
(* config_manager.py: merge_config on mappings of two levels.  A mapping   *)
(* gives every key of its level a node: absent, a scalar, or (at the top   *)
(* level) a section, itself a mapping of scalars.                          *)
(***************************************************************************)
SectionKeys == {"section", "new_section"}
ItemKeys == {"key1", "key2"}

Absent == "absent"
NoItems == [k \in ItemKeys |-> Absent]
AbsentNode == [kind |-> "absent", val |-> Absent, items |-> NoItems]
ScalarNode(v) == [kind |-> "scalar", val |-> v, items |-> NoItems]
SectionNode(items) == [kind |-> "dict", val |-> Absent, items |-> items]

\* The mappings whose scalars are all v.
Sections(v) == {SectionNode(items) : items \in [ItemKeys -> {Absent, v}]}
Configs(v) == [SectionKeys -> {AbsentNode, ScalarNode(v)} \cup Sections(v)]

NotMerged == [k \in SectionKeys |-> AbsentNode]

InitConfigIdle ==
    /\ default_config = NotMerged
    /\ user_config = NotMerged
    /\ merged = NotMerged

\* merge_config inside a section: the values are scalars, so `isinstance(user,
\* dict)` fails in the nested call and every key of user takes user's value.
merge_section(default, user) ==
    [k \in ItemKeys |-> IF user[k] # Absent THEN user[k] ELSE default[k]]

\* A variant of merge_config that never descends into a section (dict.update).
merge_config_shallow(default, user) ==
    [k \in SectionKeys |-> IF user[k].kind = "absent" THEN default[k] ELSE user[k]]

\* merge_config(default, user), lines 74-88.
merge_config(default, user) ==
    [k \in SectionKeys |->
        IF user[k].kind = "absent" THEN default[k]
        ELSE IF default[k].kind = "dict" /\ user[k].kind = "dict"
             THEN SectionNode(merge_section(default[k].items, user[k].items))
             ELSE user[k]]

MergeConfig ==
    /\ merged = NotMerged
    /\ merged' = merge_config(default_config, user_config)
    /\ UNCHANGED <<default_config, user_config>>
    /\ UNCHANGED <<classifyVars, notifyVars, delayVars, daemonVars, manageVars, historyVars, retryVars, storeVars,
                   loopVars, cycleVars>>

(***************************************************************************)
(* notification_manager.py                                                 *)
(***************************************************************************)
\* NotificationManager.__init__: disabled; plyer absent in this case.
InitNotifyIdle ==
    /\ notifier_enabled = FALSE
    /\ NOTIFICATIONS_AVAILABLE = FALSE
    /\ delivered = <<>>
    /\ send_ret = FALSE

\* A variant of send that does not look at self.enabled.
send_ignoring_enabled(title, shown) ==
    IF ~NOTIFICATIONS_AVAILABLE THEN {shown} ELSE {Append(shown, title), shown}

\* NotificationManager.send(title, ...) when `shown` has been shown so far:
\* what has been shown once it returns.  notification.notify either shows
\* the notification or raises; send returns True exactly when it was shown.
send(title, shown) ==
    IF ~notifier_enabled THEN {shown}
    ELSE IF ~NOTIFICATIONS_AVAILABLE THEN {shown}
    ELSE {Append(shown, title), shown}

\* notify_video(...): notify_video_downloaded builds the message and calls send.
NEW_VIDEO_TITLE == "New Video Downloaded!"
notify_video ==
    \E shown \in send(NEW_VIDEO_TITLE, delivered) :
        /\ delivered' = shown
        /\ send_ret' = (shown # delivered)

(***************************************************************************)
(* tiktok_monitor.py: the store.                                           *)
(***************************************************************************)
\* Bound on the passes of `while True` in start_monitoring.
MaxIterations == 2

\* A row of table videos.  id is the PRIMARY KEY.
VideoRow(info) == [id |-> info.id, author |-> info.uploader,
                   upload_timestamp |-> info.timestamp, download_date |-> clock]

\* No row: the value of saves[id] before the first save of id.
NoRow == [id |-> NoneVal, author |-> NoneVal, upload_timestamp |-> 0, download_date |-> 0]

\* INSERT INTO videos without OR REPLACE and without the key constraint.
InsertAppend(table, row) == table \cup {row}

\* INSERT OR REPLACE INTO videos: the row of the same id goes, the new row comes.
InsertOrReplace(table, row) == {r \in table : r.id # row.id} \cup {row}

\* is_video_downloaded(video_id)
is_video_downloaded(video_id) == \E r \in videos : r.id = video_id

\* get_last_video_timestamp(username)
get_last_video_timestamp(u) ==
    IF u \in DOMAIN monitored_users THEN monitored_users[u].last_video_timestamp ELSE 0

\* SELECT username FROM monitored_users WHERE enabled = 1
EnabledUsers == {u \in DOMAIN monitored_users : monitored_users[u].enabled = 1}

\* The orders in which a SELECT without ORDER BY may list the set S.
Orders(S) == {l \in [1..Cardinality(S) -> S] : \A i, j \in 1..Cardinality(S) : i # j => l[i] # l[j]}

\* A variant of the UPDATE of last_check that also resets the watermark.
TouchLastCheckResetting(table, u) ==
    IF u \in DOMAIN table
    THEN [table EXCEPT ![u].last_check = clock, ![u].last_video_timestamp = 0]
    ELSE table

\* UPDATE monitored_users SET last_check = now WHERE username = u
TouchLastCheck(table, u) ==
    IF u \in DOMAIN table THEN [table EXCEPT ![u].last_check = clock] ELSE table

\* update_last_video_timestamp(username, timestamp)
update_last_video_timestamp(table, u, timestamp) ==
    IF u \in DOMAIN table
    THEN [table EXCEPT ![u].last_video_timestamp = timestamp, ![u].last_check = clock]
    ELSE table

\* A variant of the UPDATE of total_videos that counts every new video.
AddTotalVideosAttempted(table, u, n) ==
    IF u \in DOMAIN table
    THEN [table EXCEPT ![u].total_videos = @ + Len(new_videos), ![u].last_check = clock]
    ELSE table

\* UPDATE monitored_users SET total_videos = total_videos + n, last_check = now
AddTotalVideos(table, u, n) ==
    IF u \in DOMAIN table
    THEN [table EXCEPT ![u].total_videos = @ + n, ![u].last_check = clock]
    ELSE table

InitStore ==
    /\ monitored_users = << >>
    /\ videos = {}
    /\ clock = 0
    /\ saves = [id \in VideoIds |-> NoRow]

\* save_video_metadata(video_info, file_path)
save_video_metadata(video_info) ==
    /\ videos' = InsertOrReplace(videos, VideoRow(video_info))
    /\ saves' = [saves EXCEPT ![video_info.id] = VideoRow(video_info)]

InitLoopIdle ==
    /\ pc = "idle" /\ users = <<>> /\ max_iterations = 0 /\ iteration = 0
    /\ consecutive_all_failed = 0 /\ uidx = 0 /\ total_downloaded = 0
    /\ failed_users = <<>> /\ non_retryable_errors = <<>> /\ sent = <<>>

NoRet == [count |-> 0, error |-> NoError]

InitCycleIdle ==
    /\ username = NoneVal /\ last_timestamp = 0 /\ fetched = <<>> /\ new_videos = <<>>
    /\ vidx = 0 /\ downloaded = 0 /\ newest_timestamp = 0 /\ download_error = NoError
    /\ ret = NoRet

\* The management commands are one SQL statement each on monitored_users, run
\* by another process.  A cycle of monitor_user reads and writes its row by
\* username only, never `enabled`, so a command issued inside a cycle leaves
\* the store as the same command issued right after it: the model places
\* the commands between the cycles.
BetweenCycles == pc \in {"idle", "users"}

NewUserRow == [last_check |-> clock, last_video_timestamp |-> 0,
               total_videos |-> 0, enabled |-> 1]

\* A variant of add_user_to_monitor with INSERT OR REPLACE.
AddUserReplace(u) ==
    /\ BetweenCycles
    /\ monitored_users' = [x \in DOMAIN monitored_users \cup {u} |->
                              IF x = u THEN NewUserRow ELSE monitored_users[x]]
    /\ UNCHANGED <<videos, clock, saves, classifyVars, configVars, notifyVars, daemonVars, manageVars, historyVars, delayVars, retryVars, loopVars, cycleVars>>

\* add_user_to_monitor(username): INSERT OR IGNORE.
AddUser(u) ==
    /\ BetweenCycles
    /\ monitored_users' =
         IF u \in DOMAIN monitored_users THEN monitored_users
         ELSE [x \in DOMAIN monitored_users \cup {u} |->
                  IF x = u THEN NewUserRow ELSE monitored_users[x]]
    /\ UNCHANGED <<videos, clock, saves, classifyVars, configVars, notifyVars, daemonVars, manageVars, historyVars, delayVars, retryVars, loopVars, cycleVars>>

\* remove_user_from_monitor(username): the soft delete.
RemoveUser(u) ==
    /\ BetweenCycles
    /\ u \in DOMAIN monitored_users
    /\ monitored_users' = [monitored_users EXCEPT ![u].enabled = 0]
    /\ UNCHANGED <<videos, clock, saves, classifyVars, configVars, notifyVars, daemonVars, manageVars, historyVars, delayVars, retryVars, loopVars, cycleVars>>

\* enable_user(username)
EnableUser(u) ==
    /\ BetweenCycles
    /\ u \in DOMAIN monitored_users
    /\ monitored_users' = [monitored_users EXCEPT ![u].enabled = 1]
    /\ UNCHANGED <<videos, clock, saves, classifyVars, configVars, notifyVars, daemonVars, manageVars, historyVars, delayVars, retryVars, loopVars, cycleVars>>

(***************************************************************************)
(* tiktok_monitor.py: monitor_user.                                        *)
(***************************************************************************)
\* A variant of the filter without the exclusion of lines 527-528.
RECURSIVE FilterNewNoExclusion(_, _)
FilterNewNoExclusion(list, last) ==
    IF list = <<>> THEN <<>>
    ELSE LET video == Head(list)
             rest == FilterNewNoExclusion(Tail(list), last)
         IN IF video.timestamp > last \/ ~is_video_downloaded(video.id)
            THEN <<video>> \o rest
            ELSE rest

\* A variant of the filter that compares timestamps only.
RECURSIVE FilterNewTimestampOnly(_, _)
FilterNewTimestampOnly(list, last) ==
    IF list = <<>> THEN <<>>
    ELSE LET video == Head(list)
             rest == FilterNewTimestampOnly(Tail(list), last)
         IN IF video.timestamp > last THEN <<video>> \o rest ELSE rest

\* A variant of the filter that puts each selected video in front of the list.
RECURSIVE FilterNewPrepending(_, _)
FilterNewPrepending(list, last) ==
    IF list = <<>> THEN <<>>
    ELSE LET video == Head(list)
             video_timestamp == video.timestamp
             rest == FilterNewPrepending(Tail(list), last)
         IN IF video_timestamp > last \/ ~is_video_downloaded(video.id)
            THEN IF video_timestamp > 0 /\ video_timestamp <= last
                 THEN rest
                 ELSE rest \o <<video>>
            ELSE rest

\* The filter of new videos, lines 521-529.
RECURSIVE FilterNew(_, _)
FilterNew(list, last) ==
    IF list = <<>> THEN <<>>
    ELSE LET video == Head(list)
             video_timestamp == video.timestamp
             rest == FilterNew(Tail(list), last)
         IN IF video_timestamp > last \/ ~is_video_downloaded(video.id)
            THEN IF video_timestamp > 0 /\ video_timestamp <= last
                 THEN rest
                 ELSE <<video>> \o rest
            ELSE rest

\* The locals of monitor_user once it has returned.
ForgetCycle ==
    /\ username' = NoneVal /\ last_timestamp' = 0 /\ fetched' = <<>> /\ new_videos' = <<>>
    /\ vidx' = 0 /\ downloaded' = 0 /\ newest_timestamp' = 0 /\ download_error' = NoError
    /\ ret' = NoRet

\* monitor_user(username) up to the call of get_user_videos.
MonitorUserBegin(u) ==
    /\ username' = u
    /\ last_timestamp' = get_last_video_timestamp(u)
    /\ EnterLoop("get_user_videos", [NoArg EXCEPT !.username = u], EngineMaxRetries, <<0, 0>>, 0)
    /\ fetched' = <<>> /\ new_videos' = <<>> /\ vidx' = 0 /\ downloaded' = 0
    /\ newest_timestamp' = 0 /\ download_error' = NoError /\ ret' = NoRet

\* The retry variables once the caller has taken the result of a loop.
LeaveLoop ==
    /\ rLoop' = "none" /\ rMax' = 0 /\ rRange' = <<0, 0>> /\ rRateWait' = 0
    /\ rAttempt' = 0 /\ rStatus' = "none" /\ rResult' = NoReturn /\ rArg' = NoArg
    /\ rSlept' = 0 /\ rLog' = <<>>

\* if fetch_error: update last_check, return 0, fetch_error
FetchFailed ==
    /\ pc = "fetching" /\ rLoop = "get_user_videos" /\ rStatus = "returned"
    /\ rResult.error # NoError
    /\ monitored_users' = TouchLastCheck(monitored_users, username)
    /\ ret' = [count |-> 0, error |-> rResult.error]
    /\ pc' = "monitored"
    /\ LeaveLoop
    /\ UNCHANGED <<videos, clock, saves, classifyVars, configVars, notifyVars, daemonVars, manageVars, historyVars, delayVars>>
    /\ UNCHANGED <<users, max_iterations, iteration, consecutive_all_failed, uidx,
                   total_downloaded, failed_users, non_retryable_errors, sent>>
    /\ UNCHANGED <<username, last_timestamp, fetched, new_videos, vidx, downloaded,
                   newest_timestamp, download_error>>

\* if not videos: update last_check, return 0, None
NoVideos ==
    /\ pc = "fetching" /\ rLoop = "get_user_videos" /\ rStatus = "returned"
    /\ rResult.error = NoError
    /\ rResult.videos = <<>>
    /\ monitored_users' = TouchLastCheck(monitored_users, username)
    /\ ret' = NoRet
    /\ pc' = "monitored"
    /\ LeaveLoop
    /\ UNCHANGED <<videos, clock, saves, classifyVars, configVars, notifyVars, daemonVars, manageVars, historyVars, delayVars>>
    /\ UNCHANGED <<users, max_iterations, iteration, consecutive_all_failed, uidx,
                   total_downloaded, failed_users, non_retryable_errors, sent>>
    /\ UNCHANGED <<username, last_timestamp, fetched, new_videos, vidx, downloaded,
                   newest_timestamp, download_error>>

\* The list is not empty: monitor_user goes on to the filter.
VideosFound ==
    /\ pc = "fetching" /\ rLoop = "get_user_videos" /\ rStatus = "returned"
    /\ rResult.error = NoError
    /\ rResult.videos # <<>>
    /\ fetched' = rResult.videos
    /\ pc' = "filter"
    /\ LeaveLoop
    /\ UNCHANGED <<storeVars, classifyVars, configVars, notifyVars, daemonVars, manageVars, historyVars, delayVars>>
    /\ UNCHANGED <<users, max_iterations, iteration, consecutive_all_failed, uidx,
                   total_downloaded, failed_users, non_retryable_errors, sent>>
    /\ UNCHANGED <<username, last_timestamp, new_videos, vidx, downloaded,
                   newest_timestamp, download_error, ret>>

\* Lines 521-557: the filter; without new videos update last_check and
\* return 0, None; with new videos set up the download loop.
Filter ==
    /\ pc = "filter"
    /\ new_videos' = FilterNew(fetched, last_timestamp)
    /\ IF new_videos' = <<>>
       THEN /\ monitored_users' = TouchLastCheck(monitored_users, username)
            /\ ret' = NoRet
            /\ pc' = "monitored"
            /\ UNCHANGED <<vidx, downloaded, newest_timestamp, download_error>>
       ELSE /\ downloaded' = 0
            /\ newest_timestamp' = last_timestamp
            /\ download_error' = NoError
            /\ vidx' = 1
            /\ pc' = "batch"
            /\ UNCHANGED <<monitored_users, ret>>
    /\ UNCHANGED <<videos, clock, saves, classifyVars, configVars, notifyVars, daemonVars, manageVars, historyVars, delayVars, retryVars>>
    /\ UNCHANGED <<users, max_iterations, iteration, consecutive_all_failed, uidx,
                   total_downloaded, failed_users, non_retryable_errors, sent>>
    /\ UNCHANGED <<username, last_timestamp, fetched>>

\* for i, video in enumerate(new_videos, 1): the anti-bot delay and the call
\* of download_video(video['url'], username).
DownloadNext ==
    /\ pc = "batch"
    /\ vidx <= Len(new_videos)
    /\ EnterLoop("download_video", [username |-> username, video |-> new_videos[vidx]],
                 EngineMaxRetries, <<0, 0>>, 0)
    /\ pc' = "item"
    /\ UNCHANGED <<storeVars, classifyVars, configVars, notifyVars, daemonVars, manageVars, historyVars, delayVars, cycleVars>>
    /\ UNCHANGED <<users, max_iterations, iteration, consecutive_all_failed, uidx,
                   total_downloaded, failed_users, non_retryable_errors, sent>>

\* A variant of a failed download that leaves the loop.
ItemFailedAborting ==
    /\ pc = "item" /\ rLoop = "download_video" /\ rStatus = "returned"
    /\ rResult.error # NoError
    /\ download_error' = rResult.error
    /\ vidx' = Len(new_videos) + 1
    /\ pc' = "batch"
    /\ LeaveLoop
    /\ UNCHANGED <<storeVars, classifyVars, configVars, notifyVars, daemonVars, manageVars, historyVars, delayVars>>
    /\ UNCHANGED <<users, max_iterations, iteration, consecutive_all_failed, uidx,
                   total_downloaded, failed_users, non_retryable_errors, sent>>
    /\ UNCHANGED <<username, last_timestamp, fetched, new_videos, downloaded,
                   newest_timestamp, ret>>

\* A variant of a failed download that takes the timestamp of the listed video.
ItemFailedAdvancing ==
    /\ pc = "item" /\ rLoop = "download_video" /\ rStatus = "returned"
    /\ rResult.error # NoError
    /\ download_error' = rResult.error
    /\ vidx' = vidx + 1
    /\ pc' = "batch"
    /\ LeaveLoop
    /\ UNCHANGED <<storeVars, classifyVars, configVars, notifyVars, daemonVars, manageVars, historyVars, delayVars>>
    /\ UNCHANGED <<users, max_iterations, iteration, consecutive_all_failed, uidx,
                   total_downloaded, failed_users, non_retryable_errors, sent>>
    /\ newest_timestamp' = Max(newest_timestamp, new_videos[vidx].timestamp)
    /\ UNCHANGED <<username, last_timestamp, fetched, new_videos, downloaded, ret>>

\* if error: download_error = error; continue
ItemFailed ==
    /\ pc = "item" /\ rLoop = "download_video" /\ rStatus = "returned"
    /\ rResult.error # NoError
    /\ download_error' = rResult.error
    /\ vidx' = vidx + 1
    /\ pc' = "batch"
    /\ LeaveLoop
    /\ UNCHANGED <<storeVars, classifyVars, configVars, notifyVars, daemonVars, manageVars, historyVars, delayVars>>
    /\ UNCHANGED <<users, max_iterations, iteration, consecutive_all_failed, uidx,
                   total_downloaded, failed_users, non_retryable_errors, sent>>
    /\ UNCHANGED <<username, last_timestamp, fetched, new_videos, downloaded,
                   newest_timestamp, ret>>

\* A variant of a saved download that writes the watermark at once.
ItemSavedAdvancing ==
    /\ pc = "item" /\ rLoop = "download_video" /\ rStatus = "returned"
    /\ rResult.error = NoError
    /\ LET info == rResult.info IN
       /\ save_video_metadata(info)
       /\ downloaded' = downloaded + 1
       /\ newest_timestamp' = IF info.timestamp > newest_timestamp
                              THEN info.timestamp ELSE newest_timestamp
    /\ notify_video
    /\ vidx' = vidx + 1
    /\ pc' = "batch"
    /\ LeaveLoop
    /\ UNCHANGED <<notifier_enabled, NOTIFICATIONS_AVAILABLE>>
    /\ monitored_users' =
         update_last_video_timestamp(monitored_users, username, newest_timestamp')
    /\ UNCHANGED <<clock, classifyVars, configVars, daemonVars, manageVars, historyVars, delayVars>>
    /\ UNCHANGED <<users, max_iterations, iteration, consecutive_all_failed, uidx,
                   total_downloaded, failed_users, non_retryable_errors, sent>>
    /\ UNCHANGED <<username, last_timestamp, fetched, new_videos, download_error, ret>>

\* if info and filepath: save_video_metadata, downloaded += 1, notify_video,
\* and the newest timestamp.
ItemSaved ==
    /\ pc = "item" /\ rLoop = "download_video" /\ rStatus = "returned"
    /\ rResult.error = NoError
    /\ LET info == rResult.info IN
       /\ save_video_metadata(info)
       /\ downloaded' = downloaded + 1
       /\ newest_timestamp' = IF info.timestamp > newest_timestamp
                              THEN info.timestamp ELSE newest_timestamp
    /\ notify_video
    /\ vidx' = vidx + 1
    /\ pc' = "batch"
    /\ LeaveLoop
    /\ UNCHANGED <<notifier_enabled, NOTIFICATIONS_AVAILABLE>>
    /\ UNCHANGED <<monitored_users, clock, classifyVars, configVars, daemonVars, manageVars, historyVars, delayVars>>
    /\ UNCHANGED <<users, max_iterations, iteration, consecutive_all_failed, uidx,
                   total_downloaded, failed_users, non_retryable_errors, sent>>
    /\ UNCHANGED <<username, last_timestamp, fetched, new_videos, download_error, ret>>

\* Lines 597-614: the timestamp, the count, and the return.
PersistBatch ==
    /\ pc = "batch"
    /\ vidx > Len(new_videos)
    /\ LET advanced == IF newest_timestamp > last_timestamp
                       THEN update_last_video_timestamp(monitored_users, username, newest_timestamp)
                       ELSE monitored_users
       IN monitored_users' = AddTotalVideos(advanced, username, downloaded)
    /\ ret' = [count |-> downloaded, error |-> download_error]
    /\ pc' = "monitored"
    /\ UNCHANGED <<videos, clock, saves, classifyVars, configVars, notifyVars, daemonVars, manageVars, delayVars, retryVars>>
    /\ UNCHANGED <<users, max_iterations, iteration, consecutive_all_failed, uidx,
                   total_downloaded, failed_users, non_retryable_errors, sent>>
    /\ UNCHANGED <<username, last_timestamp, fetched, new_videos, vidx, downloaded,
                   newest_timestamp, download_error>>

\* The end of a batch as the program runs it.
Persist == PersistBatch /\ UNCHANGED historyVars

(***************************************************************************)
(* tiktok_monitor.py: start_monitoring.                                    *)
(***************************************************************************)
max_consecutive_all_failed == 1

\* A variant of the all-failed test that asks for one failed user only.
AllUsersFailedAny(failed, userlist) == Len(failed) >= 1 /\ Len(userlist) > 0

\* len(failed_users) == len(users) and len(users) > 0
AllUsersFailed(failed, userlist) == Len(failed) = Len(userlist) /\ Len(userlist) > 0

\* start_monitoring(max_iterations=n): the list of users is read once; with
\* no user the call returns at once.  max_iterations = 0 stands for None:
\* `if max_iterations and ...` treats both alike.  The clock has moved on
\* since the store was last written.
StartMonitoring ==
    /\ pc = "idle"
    /\ \E order \in Orders(EnabledUsers), n \in 0..MaxIterations :
          /\ users' = order
          /\ max_iterations' = n
          /\ IF order = <<>>
             THEN /\ pc' = "done"
                  /\ UNCHANGED <<iteration, uidx>>
             ELSE \* the first pass of `while True`
                  /\ iteration' = 1
                  /\ uidx' = 1
                  /\ pc' = "users"
    /\ consecutive_all_failed' = 0
    /\ clock' = clock + 1
    /\ UNCHANGED <<total_downloaded, failed_users, non_retryable_errors, sent>>
    /\ UNCHANGED <<monitored_users, videos, saves, classifyVars, configVars, notifyVars, daemonVars, manageVars, historyVars, delayVars, retryVars, cycleVars>>

\* for username in users: the call of monitor_user(username).
CheckUser ==
    /\ pc = "users"
    /\ uidx <= Len(users)
    /\ MonitorUserBegin(users[uidx])
    /\ pc' = "fetching"
    /\ UNCHANGED <<monitored_users, videos, clock, saves, classifyVars, configVars, notifyVars, daemonVars, manageVars, historyVars, delayVars>>
    /\ UNCHANGED <<users, max_iterations, iteration, consecutive_all_failed, uidx,
                   total_downloaded, failed_users, non_retryable_errors, sent>>

\* Lines 653-668: the result of monitor_user is counted; a user with an error
\* is a failed user.  With the delays of the configuration no statement of
\* the try block raises, and monitor_user catches every Exception itself.
UserChecked ==
    /\ pc = "monitored"
    /\ total_downloaded' = total_downloaded + ret.count
    /\ IF ret.error # NoError
       THEN /\ failed_users' = Append(failed_users, username)
            /\ non_retryable_errors' =
                 IF ~is_retryable(ret.error.error_type)
                 THEN Append(non_retryable_errors, <<username, ret.error>>)
                 ELSE non_retryable_errors
       ELSE UNCHANGED <<failed_users, non_retryable_errors>>
    /\ uidx' = uidx + 1
    /\ pc' = "users"
    /\ ForgetCycle
    /\ UNCHANGED <<users, max_iterations, iteration, consecutive_all_failed, sent>>
    /\ UNCHANGED <<classifyVars, configVars, notifyVars, daemonVars, manageVars, historyVars, delayVars, retryVars, storeVars>>

\* A variant of the stop that tells nobody.
StopMonitorSilent ==
    /\ pc = "users"
    /\ uidx > Len(users)
    /\ AllUsersFailed(failed_users, users)
    /\ consecutive_all_failed + 1 >= max_consecutive_all_failed
    /\ consecutive_all_failed' = consecutive_all_failed + 1
    /\ sent' = sent
    /\ \E first \in (IF consecutive_all_failed' = 1
                      THEN send("All Users Failed", delivered) ELSE {delivered}) :
          \E shown \in send("Monitor STOPPED", first) :
              /\ delivered' = shown
              /\ send_ret' = (shown # first)
    /\ UNCHANGED <<notifier_enabled, NOTIFICATIONS_AVAILABLE>>
    /\ pc' = "stopped"
    /\ UNCHANGED <<users, max_iterations, iteration, uidx, total_downloaded,
                   failed_users, non_retryable_errors>>
    /\ UNCHANGED <<classifyVars, configVars, daemonVars, manageVars, historyVars, delayVars, retryVars, storeVars, cycleVars>>

\* Lines 674-722: every user failed; the counter reaches the limit and
\* start_monitoring returns.
StopMonitor ==
    /\ pc = "users"
    /\ uidx > Len(users)
    /\ AllUsersFailed(failed_users, users)
    /\ consecutive_all_failed + 1 >= max_consecutive_all_failed
    /\ consecutive_all_failed' = consecutive_all_failed + 1
    /\ sent' = sent \o (IF consecutive_all_failed' = 1 THEN <<"All Users Failed">> ELSE <<>>)
                    \o <<"Monitor STOPPED">>
    /\ \E first \in (IF consecutive_all_failed' = 1
                      THEN send("All Users Failed", delivered) ELSE {delivered}) :
          \E shown \in send("Monitor STOPPED", first) :
              /\ delivered' = shown
              /\ send_ret' = (shown # first)
    /\ UNCHANGED <<notifier_enabled, NOTIFICATIONS_AVAILABLE>>
    /\ pc' = "stopped"
    /\ UNCHANGED <<users, max_iterations, iteration, uidx, total_downloaded,
                   failed_users, non_retryable_errors>>
    /\ UNCHANGED <<classifyVars, configVars, daemonVars, manageVars, historyVars, delayVars, retryVars, storeVars, cycleVars>>

\* EndIteration without the test of max_iterations at lines 737-739: the loop
\* goes on to the next iteration.
EndIterationIgnoringLimit ==
    /\ pc = "users"
    /\ uidx > Len(users)
    /\ IF AllUsersFailed(failed_users, users)
       THEN /\ consecutive_all_failed + 1 < max_consecutive_all_failed
            /\ consecutive_all_failed' = consecutive_all_failed + 1
            /\ sent' = sent \o (IF consecutive_all_failed' = 1 THEN <<"All Users Failed">> ELSE <<>>)
            /\ \E shown \in (IF consecutive_all_failed' = 1
                              THEN send("All Users Failed", delivered) ELSE {delivered}) :
                  /\ delivered' = shown
                  /\ send_ret' = IF consecutive_all_failed' = 1
                                 THEN shown # delivered ELSE send_ret
       ELSE /\ consecutive_all_failed' = 0
            /\ UNCHANGED <<sent, delivered, send_ret>>
    /\ UNCHANGED <<notifier_enabled, NOTIFICATIONS_AVAILABLE>>
    /\ iteration < MaxIterations
    /\ iteration' = iteration + 1
    /\ clock' = clock + 1
    /\ total_downloaded' = 0
    /\ failed_users' = <<>>
    /\ non_retryable_errors' = <<>>
    /\ uidx' = 1
    /\ pc' = "users"
    /\ UNCHANGED <<users, max_iterations>>
    /\ UNCHANGED <<monitored_users, videos, saves, classifyVars, configVars, daemonVars, manageVars, historyVars, delayVars, retryVars, cycleVars>>

\* Lines 674-744 and 640-648: the iteration ends without a stop; the counter
\* is incremented or reset; at the limit of iterations the loop breaks,
\* otherwise wait_with_jitter, in which the clock moves on, and the head of
\* the next pass of `while True`.
\* The guard on MaxIterations bounds the model.
EndIteration ==
    /\ pc = "users"
    /\ uidx > Len(users)
    /\ IF AllUsersFailed(failed_users, users)
       THEN /\ consecutive_all_failed + 1 < max_consecutive_all_failed
            /\ consecutive_all_failed' = consecutive_all_failed + 1
            /\ sent' = sent \o (IF consecutive_all_failed' = 1 THEN <<"All Users Failed">> ELSE <<>>)
            /\ \E shown \in (IF consecutive_all_failed' = 1
                              THEN send("All Users Failed", delivered) ELSE {delivered}) :
                  /\ delivered' = shown
                  /\ send_ret' = IF consecutive_all_failed' = 1
                                 THEN shown # delivered ELSE send_ret
       ELSE /\ consecutive_all_failed' = 0
            /\ UNCHANGED <<sent, delivered, send_ret>>
    /\ UNCHANGED <<notifier_enabled, NOTIFICATIONS_AVAILABLE>>
    /\ IF max_iterations # 0 /\ iteration >= max_iterations
       THEN /\ pc' = "done"
            /\ UNCHANGED <<iteration, uidx, total_downloaded, failed_users, non_retryable_errors, clock>>
       ELSE /\ iteration < MaxIterations
            /\ iteration' = iteration + 1
            /\ clock' = clock + 1
            /\ total_downloaded' = 0
            /\ failed_users' = <<>>
            /\ non_retryable_errors' = <<>>
            /\ uidx' = 1
            /\ pc' = "users"
    /\ UNCHANGED <<users, max_iterations>>
    /\ UNCHANGED <<monitored_users, videos, saves, classifyVars, configVars, daemonVars, manageVars, historyVars, delayVars, retryVars, cycleVars>>

(***************************************************************************)
(* daemon_manager.py: the pid file, the processes a start creates, and one *)
(* controller calling start_daemon, stop_daemon, get_status, is_running.   *)
(* A process may exit at any moment, killed from outside or by a signal.   *)
(***************************************************************************)
MaxCalls == 3

\* Process ids: a start on Unix forks twice.
Pids == 1..(2 * MaxCalls)
NoPid == 0

\* for i in range(10), line 148.
GraceIterations == 10

NoReturnYet == [op |-> "none", ok |-> FALSE, pid |-> NoPid, msg |-> "none"]

\* The processes of main that may run the monitoring loop in the foreground:
\* the one that called start_daemon, and one started with --auto.
Launcher == "launcher"
Auto == "auto"

InitDaemonIdle ==
    /\ platform = "posix"
    /\ pid_file = NoPid
    /\ procs = [p \in Pids |-> "unborn"]
    /\ dpc = "idle"
    /\ pid = NoPid
    /\ poll_i = 0
    /\ signals = <<>>
    /\ dRet = NoReturnYet
    /\ dCalls = 0
    /\ foreground = {}

\* psutil.Process(p) exists and process.is_running().
Alive(p) == p \in Pids /\ procs[p] \in {"first", "grand", "monitor"}

\* The pid the next fork or Popen returns.
HasFresh == \E p \in Pids : procs[p] = "unborn"
Fresh == CHOOSE p \in Pids : procs[p] = "unborn" /\ \A q \in Pids : procs[q] = "unborn" => p <= q

\* is_running, lines 232-241: the file exists and names a running process.
is_running == pid_file # NoPid /\ Alive(pid_file)

\* remove_pid, lines 266-269.
remove_pid == pid_file' = NoPid

\* A call returns: its value, and what it printed.
Return(op, ok, p, msg) ==
    /\ dRet' = [op |-> op, ok |-> ok, pid |-> p, msg |-> msg]
    /\ dCalls' = dCalls + 1
    /\ dpc' = "idle"
    /\ pid' = NoPid
    /\ poll_i' = 0

CallBegins ==
    /\ dpc = "idle"
    /\ dCalls < MaxCalls

\* daemon.is_running() called by the menu and by main.
IsRunning ==
    /\ CallBegins
    /\ Return("is_running", is_running, NoPid, "none")
    /\ signals' = <<>>
    /\ UNCHANGED <<platform, foreground, pid_file, procs, engineVars>>

\* A variant of the entry of start_daemon that never refuses.
StartBeginUnchecked ==
    /\ CallBegins
    /\ signals' = <<>>
    /\ dpc' = "start_spawn"
    /\ UNCHANGED <<pid_file, pid, poll_i, dRet, dCalls>>
    /\ UNCHANGED <<platform, foreground, procs, engineVars>>

\* start_daemon, lines 43-52: refuses when the daemon is running.
StartBegin ==
    /\ CallBegins
    /\ signals' = <<>>
    /\ IF is_running
       THEN /\ Return("start", FALSE, NoPid, "already running")
            /\ UNCHANGED pid_file
       ELSE /\ dpc' = "start_spawn"
            /\ UNCHANGED <<pid_file, pid, poll_i, dRet, dCalls>>
    /\ UNCHANGED <<platform, foreground, procs, engineVars>>

\* start_daemon, lines 54-74 and 119-122: Popen on Windows, os.fork on Unix,
\* or the exception either raises: start_daemon returns None, and main
\* (tiktok_monitor.py, lines 1043-1048) takes None on Unix for the return in
\* the daemon child and calls start_monitoring.
StartSpawn ==
    /\ dpc = "start_spawn"
    /\ \/ /\ Return("start", FALSE, NoPid, "failed")
          /\ foreground' = IF platform # "nt" THEN foreground \cup {Launcher} ELSE foreground
          /\ UNCHANGED procs
       \/ /\ HasFresh
          /\ procs' = [procs EXCEPT ![Fresh] = IF platform = "nt" THEN "monitor" ELSE "first"]
          /\ pid' = Fresh
          /\ dpc' = "start_write"
          /\ UNCHANGED <<poll_i, dRet, dCalls, foreground>>
    /\ UNCHANGED <<platform, pid_file, signals, engineVars>>

\* main with --auto (tiktok_monitor.py, lines 1052-1053) or choice 7 of the
\* menu (line 871): start_monitoring in the foreground; the pid file is not
\* read.
MainAuto ==
    /\ Auto \notin foreground
    /\ foreground' = foreground \cup {Auto}
    /\ UNCHANGED <<platform, pid_file, procs, dpc, pid, poll_i, signals, dRet, dCalls, engineVars>>

\* A foreground run ends: the loop stops or the user interrupts it.
ForegroundExits(f) ==
    /\ f \in foreground
    /\ foreground' = foreground \ {f}
    /\ UNCHANGED <<platform, pid_file, procs, dpc, pid, poll_i, signals, dRet, dCalls, engineVars>>

\* start_daemon, lines 75-81 (the parent on Unix) and 111-117 (Windows).
StartWrite ==
    /\ dpc = "start_write"
    /\ pid_file' = pid
    /\ Return("start", TRUE, pid, "started")
    /\ UNCHANGED <<platform, foreground, procs, signals, engineVars>>

\* start_daemon in the first child, lines 85-90: setsid, the second fork, exit.
ChildSecondFork(c) ==
    /\ procs[c] = "first"
    /\ HasFresh
    /\ procs' = [procs EXCEPT ![c] = "gone", ![Fresh] = "grand"]
    /\ UNCHANGED <<platform, foreground, pid_file, dpc, pid, poll_i, signals, dRet, dCalls, engineVars>>

\* start_daemon in the second child, lines 93-108: it writes its own pid and
\* goes on to the monitoring loop.
GrandchildWrite(g) ==
    /\ procs[g] = "grand"
    /\ pid_file' = g
    /\ procs' = [procs EXCEPT ![g] = "monitor"]
    /\ UNCHANGED <<platform, foreground, dpc, pid, poll_i, signals, dRet, dCalls, engineVars>>

\* A process ends: the loop stops, a signal is handled, or it is killed from outside.
ProcessExits(p) ==
    /\ Alive(p)
    /\ procs' = [procs EXCEPT ![p] = "gone"]
    /\ UNCHANGED <<platform, foreground, pid_file, dpc, pid, poll_i, signals, dRet, dCalls, engineVars>>

\* stop_daemon, lines 131-136.
StopBegin ==
    /\ CallBegins
    /\ signals' = <<>>
    /\ IF ~is_running
       THEN /\ Return("stop", FALSE, NoPid, "not running")
       ELSE /\ pid' = pid_file
            /\ dpc' = "stop_lookup"
            /\ UNCHANGED <<poll_i, dRet, dCalls>>
    /\ UNCHANGED <<platform, foreground, pid_file, procs, engineVars>>

\* stop_daemon, line 139, and the handler of NoSuchProcess, lines 167-170.
StopLookup ==
    /\ dpc = "stop_lookup"
    /\ IF Alive(pid)
       THEN /\ dpc' = "stop_signal"
            /\ UNCHANGED <<pid_file, pid, poll_i, dRet, dCalls>>
       ELSE /\ remove_pid
            /\ Return("stop", FALSE, NoPid, "not found")
    /\ UNCHANGED <<platform, foreground, procs, signals, engineVars>>

\* stop_daemon, lines 142-145: process.terminate() on Windows raises
\* NoSuchProcess for a process that is gone, os.kill raises
\* ProcessLookupError, and either may be refused (AccessDenied,
\* PermissionError): lines 167-174.
StopSignal ==
    /\ dpc = "stop_signal"
    /\ \/ /\ Alive(pid)
          /\ signals' = Append(signals, "SIGTERM")
          /\ dpc' = "stop_poll"
          /\ poll_i' = 0
          /\ UNCHANGED <<pid_file, pid, dRet, dCalls>>
       \/ /\ ~Alive(pid)
          /\ platform = "nt"
          /\ remove_pid
          /\ Return("stop", FALSE, NoPid, "not found")
          /\ UNCHANGED signals
       \/ /\ ~Alive(pid) => platform = "posix"
          /\ Return("stop", FALSE, NoPid, "failed")
          /\ UNCHANGED <<pid_file, signals>>
    /\ UNCHANGED <<platform, foreground, procs, engineVars>>

\* A variant of the wait that polls once and leaves the loop.
StopPollOnce ==
    /\ dpc = "stop_poll"
    /\ signals' = Append(signals, "poll")
    /\ dpc' = "stop_final"
    /\ UNCHANGED <<platform, foreground, pid_file, procs, pid, poll_i, dRet, dCalls, engineVars>>

\* stop_daemon, lines 148-153: one pass of the loop, or its end.
StopPoll ==
    /\ dpc = "stop_poll"
    /\ IF poll_i < GraceIterations
       THEN /\ signals' = Append(signals, "poll")
            /\ IF Alive(pid)
               THEN /\ poll_i' = poll_i + 1
                    /\ UNCHANGED dpc
               ELSE /\ dpc' = "stop_final"
                    /\ UNCHANGED poll_i
       ELSE /\ dpc' = "stop_final"
            /\ UNCHANGED <<poll_i, signals>>
    /\ UNCHANGED <<platform, foreground, pid_file, procs, pid, dRet, dCalls, engineVars>>

\* stop_daemon, line 156, and lines 162-165 when the process is gone.
StopFinal ==
    /\ dpc = "stop_final"
    /\ signals' = Append(signals, "check")
    /\ IF Alive(pid)
       THEN /\ dpc' = "stop_kill"
            /\ UNCHANGED <<pid_file, pid, poll_i, dRet, dCalls>>
       ELSE /\ remove_pid
            /\ Return("stop", TRUE, NoPid, "stopped")
    /\ UNCHANGED <<platform, foreground, procs, engineVars>>

\* stop_daemon, lines 157-165: process.kill(), then the pid file is removed;
\* kill raises NoSuchProcess (lines 167-170) or is refused (lines 171-174).
StopKill ==
    /\ dpc = "stop_kill"
    /\ \/ /\ Alive(pid)
          /\ signals' = Append(signals, "KILL")
          /\ procs' = [procs EXCEPT ![pid] = "gone"]
          /\ remove_pid
          /\ Return("stop", TRUE, NoPid, "stopped")
       \/ /\ ~Alive(pid)
          /\ remove_pid
          /\ Return("stop", FALSE, NoPid, "not found")
          /\ UNCHANGED <<procs, signals>>
       \/ /\ Alive(pid)
          /\ Return("stop", FALSE, NoPid, "failed")
          /\ UNCHANGED <<pid_file, procs, signals>>
    /\ UNCHANGED <<platform, foreground, engineVars>>

\* A variant of the entry of get_status that leaves a stale pid file in place.
StatusBeginKeepsRecord ==
    /\ CallBegins
    /\ signals' = <<>>
    /\ IF pid_file # NoPid /\ Alive(pid_file)
       THEN /\ pid' = pid_file
            /\ dpc' = "status_info"
            /\ UNCHANGED <<poll_i, dRet, dCalls>>
       ELSE Return("status", FALSE, NoPid, "not running")
    /\ UNCHANGED <<platform, foreground, pid_file, procs, engineVars>>

\* get_status, lines 183-194 and 209-223.
StatusBegin ==
    /\ CallBegins
    /\ signals' = <<>>
    /\ IF pid_file = NoPid
       THEN /\ Return("status", FALSE, NoPid, "not running")
            /\ UNCHANGED pid_file
       ELSE IF Alive(pid_file)
            THEN /\ pid' = pid_file
                 /\ dpc' = "status_info"
                 /\ UNCHANGED <<pid_file, poll_i, dRet, dCalls>>
            ELSE /\ remove_pid
                 /\ Return("status", FALSE, NoPid, "stale PID file removed")
    /\ UNCHANGED <<platform, foreground, procs, engineVars>>

\* get_status, lines 196-208: the details of the process; create_time,
\* cpu_percent and memory_info raise NoSuchProcess once it is gone (217-223).
StatusInfo ==
    /\ dpc = "status_info"
    /\ IF Alive(pid)
       THEN /\ Return("status", TRUE, pid, "running")
            /\ UNCHANGED pid_file
       ELSE /\ remove_pid
            /\ Return("status", FALSE, NoPid, "stale PID file removed")
    /\ UNCHANGED <<platform, foreground, procs, signals, engineVars>>

(***************************************************************************)
(* Spec: the monitoring loop over the store, the management of users       *)
(* interleaved.                                                            *)
(***************************************************************************)
Init ==
    /\ InitConfigIdle
    /\ InitNotifyIdle
    /\ InitDaemonIdle
    /\ InitManageIdle
    /\ InitHistoryIdle
    /\ InitDelayIdle
    /\ InitClassifyIdle
    /\ InitRetryIdle
    /\ InitStore
    /\ InitLoopIdle
    /\ InitCycleIdle

Next ==
    \/ \E u \in Usernames : AddUser(u)
    \/ \E u \in Usernames : RemoveUser(u)
    \/ \E u \in Usernames : EnableUser(u)
    \/ StartMonitoring
    \/ CheckUser
    \/ GetUserVideosAttempt
    \/ FetchFailed
    \/ NoVideos
    \/ VideosFound
    \/ Filter
    \/ DownloadNext
    \/ DownloadVideoAttempt
    \/ ItemFailed
    \/ ItemSaved
    \/ Persist
    \/ UserChecked
    \/ StopMonitor
    \/ EndIteration

Spec == Init /\ [][Next]_vars

(***************************************************************************)
(* Properties of Spec.                                                     *)
(***************************************************************************)
\* The step that ends an iteration of start_monitoring: the for loop over
\* users is through, and the loop stops, breaks or starts its next pass.
IterationEnds ==
    /\ pc = "users"
    /\ uidx > Len(users)
    /\ (pc' \in {"stopped", "done"} \/ iteration' # iteration)

\* Every user of the iteration is in failed_users.
EveryUserFailed == \A i \in 1..Len(users) : \E j \in 1..Len(failed_users) : failed_users[j] = users[i]

WatermarkNeverDecreases ==
    [][\A u \in DOMAIN monitored_users :
          /\ u \in DOMAIN monitored_users'
          /\ monitored_users'[u].last_video_timestamp >= monitored_users[u].last_video_timestamp]_vars

\* A user with a positive watermark, disabled since, whose
\* later cycle returned an error.
FailedCycleAfterAdvance ==
    /\ pc = "monitored"
    /\ iteration = 2
    /\ ret.error # NoError
    /\ username \in DOMAIN monitored_users
    /\ monitored_users[username].last_video_timestamp > 0
    /\ monitored_users[username].enabled = 0

\* The row of the user of the cycle in hand.
Watermark(table, u) == table[u].last_video_timestamp
TotalVideos(table, u) == table[u].total_videos

\* monitor_user has returned from a cycle whose list fetch failed: nothing
\* was fetched and an error is returned.
ListFetchFailed == pc = "monitored" /\ fetched = <<>> /\ ret.error # NoError

\* C23: start_monitoring counts a user as failed only when the list fetch of
\* its cycle failed; a cycle that fetched its list counts as a success
\* whatever became of the downloads.
OnlyListFetchFailureCounts ==
    [][(pc = "monitored" /\ failed_users' # failed_users) => ListFetchFailed]_vars

\* C24: the step that trips the breaker hands the operator's notification to
\* the notifier and start_monitoring returns: from then on no user is
\* checked, the clock of the wait does not move, no iteration starts, and the
\* store is written no more by the loop.
StopNotifiesAndEnds ==
    [][/\ (pc # "stopped" /\ pc' = "stopped")
            => /\ Len(sent') > Len(sent)
               /\ sent'[Len(sent')] = "Monitor STOPPED"
               /\ EveryUserFailed
               /\ UNCHANGED <<iteration, clock, videos, monitored_users>>
       /\ pc = "stopped"
            => /\ pc' = "stopped"
               /\ UNCHANGED <<iteration, uidx, clock, sent, videos, users>>
               /\ UNCHANGED <<retryVars, cycleVars>>]_vars

\* The breaker stopped a loop that had iterations left to run.
StoppedWithIterationsLeft ==
    /\ pc = "stopped"
    /\ iteration = 1
    /\ max_iterations = 2
    /\ sent = <<"All Users Failed", "Monitor STOPPED">>

\* The download loop of monitor_user is running.
InBatch == pc \in {"batch", "item"}

\* C25: while the download loop of a cycle runs, the stored watermark of the
\* user is the one read at the start of the cycle; it is written by the one
\* step that ends the loop, after the last new video was attempted.
WatermarkWrittenAfterBatch ==
    /\ [](InBatch => Watermark(monitored_users, username) = last_timestamp)
    /\ [][\A u \in DOMAIN monitored_users :
             Watermark(monitored_users', u) # Watermark(monitored_users, u)
                => /\ pc = "batch" /\ pc' = "monitored"
                   /\ u = username
                   /\ vidx = Len(new_videos) + 1]_vars

\* Mid-batch: the first of two new videos is saved, newer than the
\* watermark, and the stored watermark has not moved.
SavedOneOfTwoWatermarkUnmoved ==
    /\ pc = "batch"
    /\ Len(new_videos) = 2
    /\ vidx = 2
    /\ downloaded = 1
    /\ newest_timestamp > last_timestamp
    /\ Watermark(monitored_users, username) = last_timestamp

\* The timestamps of the rows of table videos of a user.
StoredTimestamps(u) == {r.upload_timestamp : r \in {x \in videos : x.author = u}}

\* C26: outside the download loop the watermark of a user is 0 or the largest
\* timestamp of the videos stored for the user, never the timestamp of a
\* video that was listed only or whose download failed.
WatermarkIsNewestStored ==
    ~InBatch =>
        \A u \in DOMAIN monitored_users :
            \/ Watermark(monitored_users, u) = 0
            \/ /\ Watermark(monitored_users, u) \in StoredTimestamps(u)
               /\ \A t \in StoredTimestamps(u) : t <= Watermark(monitored_users, u)

\* A cycle is complete in which the newest listed video failed and an older
\* one was saved: the watermark is the timestamp of the older one.
OlderSavedNewestFailed ==
    /\ pc = "monitored"
    /\ Len(new_videos) = 2
    /\ ~is_video_downloaded(new_videos[1].id)
    /\ is_video_downloaded(new_videos[2].id)
    /\ new_videos[2].timestamp > 0
    /\ Watermark(monitored_users, username) = new_videos[2].timestamp

\* The step that ends a cycle before the download loop.
EndsEarly == pc \in {"fetching", "filter"} /\ pc' = "monitored"

\* C27: a cycle that ends because the list fetch failed, the list is empty or
\* no listed video is new writes last_check of the user and nothing else, and
\* returns (0, the error) after a failed fetch, (0, None) otherwise.
EarlyEndTouchesLastCheckOnly ==
    [][EndsEarly =>
          /\ videos' = videos
          /\ monitored_users' = [monitored_users EXCEPT ![username].last_check = clock]
          /\ ret'.count = 0
          /\ IF pc = "fetching" /\ rResult.error # NoError
             THEN ret'.error = rResult.error
             ELSE ret'.error = NoError]_vars

\* A cycle of a user with stored videos found nothing new: the count and the
\* watermark are as before, last_check is now.
NothingNewAfterDownloads ==
    /\ pc = "monitored"
    /\ fetched # <<>>
    /\ new_videos = <<>>
    /\ ret = NoRet
    /\ TotalVideos(monitored_users, username) > 0
    /\ Watermark(monitored_users, username) > 0
    /\ monitored_users[username].last_check = clock
    /\ clock > 1

\* The rows of table videos written for the user of the cycle in this
\* iteration: download_date is the clock of the iteration.
SavedThisCycle == {r \in videos : r.author = username /\ r.download_date = clock}

\* C29: the step that ends a batch adds to total_videos of the user the
\* number of videos saved in the cycle and returns that number; total_videos
\* of a user never decreases.
TotalGrowsBySavedCount ==
    [][/\ (pc = "batch" /\ pc' = "monitored")
            => /\ TotalVideos(monitored_users', username) =
                     TotalVideos(monitored_users, username) + Cardinality(SavedThisCycle)
               /\ ret'.count = Cardinality(SavedThisCycle)
       /\ \A u \in DOMAIN monitored_users :
             /\ u \in DOMAIN monitored_users'
             /\ TotalVideos(monitored_users', u) >= TotalVideos(monitored_users, u)]_vars

\* A batch of two ended with one video saved and one failed.
BatchOfTwoCountedOne ==
    /\ pc = "monitored"
    /\ Len(new_videos) = 2
    /\ ret.count = 1
    /\ ret.error # NoError
    /\ TotalVideos(monitored_users, username) = 1

\* The users of the list of the loop, as a set.
UsersOfTheLoop == {users[i] : i \in 1..Len(users)}

\* C30: every iteration goes over the users enabled in the store when it
\* starts.
IterationCoversEnabledUsers ==
    [][iteration' # iteration => UsersOfTheLoop' = EnabledUsers]_vars

(***************************************************************************)
(* SpecClassify: every bounded error text is classified once.              *)
(***************************************************************************)
InitClassify ==
    /\ InitConfigIdle
    /\ InitNotifyIdle
    /\ InitDaemonIdle
    /\ InitManageIdle
    /\ InitHistoryIdle
    /\ InitDelayIdle
    /\ cInput \in ErrorInputs
    /\ cResult = NoResult
    /\ InitRetryIdle
    /\ InitStore
    /\ InitLoopIdle
    /\ InitCycleIdle

NextClassify == Classify

SpecClassify == InitClassify /\ [][NextClassify]_vars

\* The nine kinds with keywords, in the order of the priority list.
KindKeywords == <<[kind |-> ErrorType.GEO_RESTRICTION, keywords |-> GeoKeywords],
                  [kind |-> ErrorType.PRIVATE_VIDEO,   keywords |-> PrivateKeywords],
                  [kind |-> ErrorType.DELETED_VIDEO,   keywords |-> DeletedKeywords],
                  [kind |-> ErrorType.RATE_LIMIT,      keywords |-> RateLimitKeywords],
                  [kind |-> ErrorType.NETWORK,         keywords |-> NetworkKeywords],
                  [kind |-> ErrorType.INVALID_URL,     keywords |-> InvalidUrlKeywords],
                  [kind |-> ErrorType.PERMISSION,      keywords |-> PermissionKeywords],
                  [kind |-> ErrorType.DISK_SPACE,      keywords |-> DiskSpaceKeywords],
                  [kind |-> ErrorType.COOKIES_NEEDED,  keywords |-> CookiesKeywords]>>

\* The positions of KindKeywords of which the lower-case text holds a keyword.
PresentAt(lower) == {i \in 1..Len(KindKeywords) : AnyKeyword(lower, KindKeywords[i].keywords)}

KindsPresent(lower) == {KindKeywords[i].kind : i \in PresentAt(lower)}

AllKinds == {ErrorType.GEO_RESTRICTION, ErrorType.PRIVATE_VIDEO, ErrorType.DELETED_VIDEO,
             ErrorType.RATE_LIMIT, ErrorType.NETWORK, ErrorType.INVALID_URL,
             ErrorType.PERMISSION, ErrorType.DISK_SPACE, ErrorType.COOKIES_NEEDED,
             ErrorType.UNKNOWN}

\* C9: whatever the case of its letters, a text with keywords of exactly one
\* kind is classified as that kind and a text with no keyword as unknown;
\* "HTTP Error 429 Too Many Requests" is rate_limit, retryable, wait 300, and
\* "This video is private" is private_video, not retryable.
ClassifiesSingleKindIgnoringCase ==
    cResult # NoResult =>
        LET kinds == KindsPresent(cInput.lower) IN
        /\ Cardinality(kinds) = 1 => cResult.error_type \in kinds
        /\ kinds = {} => cResult.error_type = ErrorType.UNKNOWN
        /\ cInput.text = "HTTP Error 429 Too Many Requests" =>
              cResult = [error_type |-> ErrorType.RATE_LIMIT, retryable |-> TRUE, wait |-> 300]
        /\ cInput.text = "This video is private" =>
              /\ cResult.error_type = ErrorType.PRIVATE_VIDEO
              /\ ~cResult.retryable

\* An upper-case text with network keywords only has been classified.
ClassifiedUpperCaseNetworkText ==
    /\ cResult # NoResult
    /\ cInput.mode = "upper"
    /\ KindsPresent(cInput.lower) = {ErrorType.NETWORK}
    /\ cResult.error_type = ErrorType.NETWORK

\* C10: a text with keywords of several kinds is classified as the kind that
\* comes first in the priority list, and every result is one of the ten kinds.
FirstKindInPriorityWins ==
    cResult # NoResult =>
        LET present == PresentAt(cInput.lower) IN
        /\ cResult.error_type \in AllKinds
        /\ Cardinality(present) >= 2 =>
              \E i \in present :
                  /\ \A j \in present : i <= j
                  /\ cResult.error_type = KindKeywords[i].kind

\* A text with rate-limit and network keywords has been classified as rate_limit.
ClassifiedRateLimitOverNetwork ==
    /\ cResult # NoResult
    /\ KindsPresent(cInput.lower) = {ErrorType.RATE_LIMIT, ErrorType.NETWORK}
    /\ cResult.error_type = ErrorType.RATE_LIMIT

\* C11: the retry verdict and the wait depend on the kind alone: retryable
\* exactly for network and rate_limit, not for the eight other kinds, unknown
\* included; the wait is 300 for rate_limit, 30 for network, 60 for
\* geo_restriction, 45 for unknown and 30 for every other kind, so rate_limit
\* waits longer than network.
VerdictAndWaitFollowKind ==
    cResult # NoResult =>
        LET kind == cResult.error_type IN
        /\ cResult.retryable <=> kind \in {ErrorType.NETWORK, ErrorType.RATE_LIMIT}
        /\ cResult.wait = (IF kind = ErrorType.RATE_LIMIT THEN 300
                           ELSE IF kind = ErrorType.GEO_RESTRICTION THEN 60
                           ELSE IF kind = ErrorType.UNKNOWN THEN 45
                           ELSE 30)
        /\ get_wait_time(ErrorType.RATE_LIMIT) > get_wait_time(ErrorType.NETWORK)

\* A text of no known kind has been classified: not retryable, wait 45.
ClassifiedUnknownNotRetryable ==
    /\ cResult # NoResult
    /\ cResult.error_type = ErrorType.UNKNOWN
    /\ ~cResult.retryable
    /\ cResult.wait = 45

(***************************************************************************)
(* SpecFilter: the filter of monitor_user on every bounded listing,        *)
(* watermark and set of stored ids.                                        *)
(***************************************************************************)
\* Bound on the timestamps of the listings and on the watermark.
MaxTimestamp == 2

FilterIds == {e.id : e \in Entries("u1")}

FilterEntries == {[id |-> i, timestamp |-> t] : i \in FilterIds, t \in 0..MaxTimestamp}

\* The lists get_user_videos may hand to the filter: not empty, sorted.
Candidates ==
    {SortDesc(l) : l \in {l \in UNION {[1..n -> FilterEntries] : n \in 1..MaxVideos} :
                             \A i, j \in 1..Len(l) : i # j => l[i].id # l[j].id}}

StoredRow(i) == [id |-> i, author |-> "u1", upload_timestamp |-> 0, download_date |-> 0]

InitFilter ==
    /\ InitConfigIdle
    /\ InitNotifyIdle
    /\ InitDaemonIdle
    /\ InitManageIdle
    /\ InitHistoryIdle
    /\ InitDelayIdle
    /\ InitClassifyIdle
    /\ InitRetryIdle
    /\ clock = 1
    /\ \E stored \in SUBSET FilterIds :
          /\ videos = {StoredRow(i) : i \in stored}
          /\ saves = [i \in VideoIds |-> IF i \in stored THEN StoredRow(i) ELSE NoRow]
    /\ last_timestamp \in 0..MaxTimestamp
    /\ monitored_users = ("u1" :> [last_check |-> 0, last_video_timestamp |-> last_timestamp,
                                   total_videos |-> Cardinality(videos), enabled |-> 1])
    /\ pc = "filter" /\ users = <<"u1">> /\ max_iterations = 0 /\ iteration = 1
    /\ consecutive_all_failed = 0 /\ uidx = 1 /\ total_downloaded = 0
    /\ failed_users = <<>> /\ non_retryable_errors = <<>> /\ sent = <<>>
    /\ username = "u1"
    /\ fetched \in Candidates
    /\ new_videos = <<>> /\ vidx = 0 /\ downloaded = 0 /\ newest_timestamp = 0
    /\ download_error = NoError /\ ret = NoRet

NextFilter == Filter

SpecFilter == InitFilter /\ [][NextFilter]_vars

\* The filter has run on `fetched`.
Filtered == pc \in {"batch", "monitored"}

Selected(video) == \E j \in 1..Len(new_videos) : new_videos[j] = video

\* C1: the filter never selects a video whose timestamp is positive and at
\* most the watermark of the user.
NeverSelectsAtOrBelowWatermark ==
    Filtered =>
        \A j \in 1..Len(new_videos) :
            ~(new_videos[j].timestamp > 0 /\ new_videos[j].timestamp <= last_timestamp)

\* A video of unknown id with a positive timestamp at or below the watermark
\* was left out while another video of the listing was selected.
UnknownOldVideoLeftOut ==
    /\ pc = "batch"
    /\ \E i \in 1..Len(fetched) :
          /\ fetched[i].timestamp > 0
          /\ fetched[i].timestamp <= last_timestamp
          /\ ~is_video_downloaded(fetched[i].id)
          /\ ~Selected(fetched[i])

\* C2: a video is selected if and only if its timestamp is greater than the
\* watermark, or its timestamp is not positive and its id is not stored; with
\* watermark 0 every video with a positive timestamp is selected, stored or
\* not, and a video with timestamp 0 is selected only if its id is unknown.
SelectsNewerOrUnknownUndated ==
    Filtered =>
        \A i \in 1..Len(fetched) :
            LET video == fetched[i]
                known == is_video_downloaded(video.id)
            IN /\ Selected(video) <=>
                     (video.timestamp > last_timestamp \/ (video.timestamp <= 0 /\ ~known))
               /\ last_timestamp = 0 =>
                     /\ video.timestamp > 0 => Selected(video)
                     /\ video.timestamp = 0 => (Selected(video) <=> ~known)

\* With watermark 0 a stored video with a positive timestamp was selected,
\* and a stored video with timestamp 0 was not.
StoredVideoSelectedAtWatermarkZero ==
    /\ Filtered
    /\ last_timestamp = 0
    /\ \E i \in 1..Len(fetched) :
          fetched[i].timestamp > 0 /\ is_video_downloaded(fetched[i].id) /\ Selected(fetched[i])
    /\ \E i \in 1..Len(fetched) :
          fetched[i].timestamp = 0 /\ is_video_downloaded(fetched[i].id) /\ ~Selected(fetched[i])

\* `sub` is `list` with some positions left out, the others in order.
IsSubsequence(sub, list) ==
    \E f \in [1..Len(sub) -> 1..Len(list)] :
        /\ \A i \in 1..Len(sub) : sub[i] = list[f[i]]
        /\ \A i, j \in 1..Len(sub) : i < j => f[i] < f[j]

\* C17: the selected videos are a subsequence of the candidate list, order
\* kept and no video twice; the list being sorted newest first, the first
\* selected video is the newest selected one.
SelectionKeepsOrderNewestFirst ==
    Filtered =>
        /\ IsSubsequence(new_videos, fetched)
        /\ \A i, j \in 1..Len(new_videos) : i # j => new_videos[i].id # new_videos[j].id
        /\ \A j \in 1..Len(new_videos) : new_videos[1].timestamp >= new_videos[j].timestamp

\* Two videos of different dates have been selected, the older one second.
SelectedTwoOfDifferentDates ==
    /\ Filtered
    /\ Len(new_videos) = 2
    /\ new_videos[1].timestamp > new_videos[2].timestamp
    /\ new_videos[2].timestamp > 0

(***************************************************************************)
(* SpecRetry: each retry loop on its own, the action free to succeed or to *)
(* raise any of Exceptions at each call.                                   *)
(***************************************************************************)
\* Bounds on the arguments max_retries and delay_range of the wrappers.
MaxRetries == 3
MaxDelay == 2

RetryLoops == {"get_user_videos", "download_video", "download",
               "retry_on_network_error", "retry_on_api_error", "RetryContext"}

\* The loops whose delays come from get_retry_delay.
DelayLoops == {"retry_on_network_error", "retry_on_api_error", "RetryContext"}

InitRetry ==
    /\ InitConfigIdle
    /\ InitNotifyIdle
    /\ InitDaemonIdle
    /\ InitManageIdle
    /\ InitHistoryIdle
    /\ InitDelayIdle
    /\ InitClassifyIdle
    /\ InitStore
    /\ InitLoopIdle
    /\ InitCycleIdle
    /\ rLoop \in RetryLoops
    /\ rMax \in (IF rLoop \in {"get_user_videos", "download_video"}
                 THEN {EngineMaxRetries} ELSE 1..MaxRetries)
    /\ rRange \in (IF rLoop \in DelayLoops
                   THEN {r \in (0..MaxDelay) \X (1..MaxDelay) : r[1] <= r[2]}
                   ELSE {<<0, 0>>})
    /\ rRateWait = (IF rLoop = "retry_on_api_error" THEN RATE_LIMIT_WAIT ELSE 0)
    /\ rArg \in (IF rLoop = "get_user_videos" THEN {[NoArg EXCEPT !.username = "u1"]}
                 ELSE IF rLoop = "download_video"
                      THEN {[username |-> "u1", video |-> v] : v \in Entries("u1")}
                      ELSE {NoArg})
    /\ rAttempt = (IF rLoop = "RetryContext" THEN 0 ELSE 1)
    /\ rStatus = "running"
    /\ rResult = NoReturn
    /\ rSlept = 0
    /\ rLog = <<>>

NextRetry ==
    \/ GetUserVideosAttempt
    \/ DownloadVideoAttempt
    \/ DownloadAttempt
    \/ RetryOnNetworkErrorAttempt
    \/ RetryOnApiErrorAttempt
    \/ RetryContextPass

SpecRetry == InitRetry /\ [][NextRetry]_vars

\* The positions of rLog that are calls of the action.
CallIndices == {i \in 1..Len(rLog) : rLog[i].ev = "call"}

Calls == Cardinality(CallIndices)

Finished == rStatus \in {"returned", "raised"}

\* Whether `loop` treats exception e as one to retry.
RetryableIn(loop, e) ==
    CASE loop \in {"get_user_videos", "download_video", "download"} ->
            is_retryable(analyze_error(e.msg))
      [] loop = "retry_on_network_error" -> IsNetworkException(e)
      [] loop = "retry_on_api_error" ->
            IsRateLimitMessage(Lower(e.msg)) \/ AnyKeyword(Lower(e.msg), temporary_errors)
      [] OTHER -> TRUE

\* C4: in get_user_videos, download_video, retry_on_network_error and
\* retry_on_api_error a failure that is not retryable, or that is the failure
\* of the last allowed attempt, ends the operation at once: nothing follows
\* that call, neither a sleep nor another call.
FinalFailureReturnsWithoutWait ==
    rLoop \in {"get_user_videos", "download_video",
               "retry_on_network_error", "retry_on_api_error"} =>
        \A i \in CallIndices :
            LET e == rLog[i].exc
                attempt == Cardinality({j \in CallIndices : j <= i})
            IN (e # NoExc /\ (~RetryableIn(rLoop, e) \/ attempt = rMax)) =>
                   (i = Len(rLog) /\ Finished)

\* C5: when every call fails with a retryable error, retry_on_network_error
\* and retry_on_api_error call the action exactly max_retries times and sleep
\* less than max_retries * 3 * max_delay seconds in total.
AlwaysRetryableSleepsBelowBound ==
    (/\ rLoop \in {"retry_on_network_error", "retry_on_api_error"}
     /\ Finished
     /\ \A i \in CallIndices : rLog[i].exc # NoExc /\ RetryableIn(rLoop, rLog[i].exc))
    => (Calls = rMax /\ rSlept < rMax * 3 * rRange[2])

\* C6: every retry loop calls the action at most max_retries times and
\* never again after a call that succeeded.
AtMostMaxCallsNoneAfterSuccess ==
    /\ Calls <= rMax
    /\ \A i \in CallIndices : rLog[i].exc = NoExc => (i = Len(rLog) /\ rStatus = "returned")

\* The documented use of RetryContext succeeded at the last allowed attempt.
SucceededAtLastAttempt ==
    /\ rLoop = "RetryContext"
    /\ rStatus = "returned"
    /\ rMax >= 2
    /\ Calls = rMax
    /\ rLog[Len(rLog)] = Called(NoExc)

(***************************************************************************)
(* SpecStore: save_video_metadata called with any metadata, in any order.  *)
(***************************************************************************)
\* Bound on the number of calls of save_video_metadata.
MaxSaves == 3

\* The metadata yt-dlp may report for a video.
Infos == {[id |-> i, timestamp |-> t, uploader |-> u] :
             i \in VideoIds, t \in 0..MaxTimestamp, u \in Usernames}

\* One call of save_video_metadata; a second passes on the clock.
SaveVideoMetadata ==
    /\ clock < MaxSaves
    /\ \E video_info \in Infos : save_video_metadata(video_info)
    /\ clock' = clock + 1
    /\ UNCHANGED <<monitored_users, classifyVars, configVars, notifyVars, daemonVars, manageVars, historyVars, delayVars, retryVars, loopVars, cycleVars>>

NextStore == SaveVideoMetadata

SpecStore == Init /\ [][NextStore]_vars

\* C8: after any sequence of saves the table videos holds at most one row
\* per id, and that row is the one written by the latest save of the id.
OneRowPerIdWithLatestMetadata ==
    /\ \A r1, r2 \in videos : r1.id = r2.id => r1 = r2
    /\ \A i \in VideoIds : saves[i] # NoRow => saves[i] \in videos
    /\ \A r \in videos : saves[r.id] = r

\* An id was saved twice with different metadata: two saves, one row, and
\* the row is that of the second save.
SameIdSavedTwice ==
    /\ clock = 2
    /\ Cardinality(videos) = 1
    /\ \E r \in videos : r.download_date = 1 /\ r.author = "u2"

(***************************************************************************)
(* SpecDelay: get_retry_delay called once on a bounded integer range, at a *)
(* bounded attempt, with and without exponential backoff.                  *)
(***************************************************************************)
MaxRangeEnd == 3
MaxAttempt == 4

\* RetryConfig.API_RETRY_DELAY, the range of the test of the backoff.
API_RETRY_DELAY == <<5, 15>>

DelayRanges ==
    {r \in (0..MaxRangeEnd) \X (0..MaxRangeEnd) : r[1] <= r[2]} \cup {API_RETRY_DELAY}

InitDelay ==
    /\ InitConfigIdle
    /\ InitNotifyIdle
    /\ InitDaemonIdle
    /\ InitManageIdle
    /\ InitHistoryIdle
    /\ InitClassifyIdle
    /\ InitRetryIdle
    /\ InitStore
    /\ InitLoopIdle
    /\ InitCycleIdle
    /\ \E r \in DelayRanges, a \in 1..MaxAttempt, x \in BOOLEAN :
          delayArgs = [min_delay |-> r[1], max_delay |-> r[2], attempt |-> a,
                       exponential |-> x]
    /\ delay = NoDelay

NextDelay == GetRetryDelay

SpecDelay == InitDelay /\ [][NextDelay]_vars

Power2(n) == 2 ^ n

\* C18: with exponential backoff, integers 0 <= min <= max and attempt >= 1,
\* the delay returned is base * 2^(attempt-1) for a base in [min, max], capped
\* at 3 * max and truncated: it never exceeds 3 * max, and at attempt 1 it
\* lies in [min, max].
ExponentialDelayCappedAtThreeMax ==
    (delay # NoDelay /\ delayArgs.exponential) =>
        LET lo == delayArgs.min_delay
            hi == delayArgs.max_delay
            m  == Power2(delayArgs.attempt - 1)
        IN /\ delay <= 3 * hi
           /\ Min(lo * m, 3 * hi) <= delay
           /\ delay <= Min(hi * m, 3 * hi)
           /\ delayArgs.attempt = 1 => (lo <= delay /\ delay <= hi)

\* At attempt 3 the product passes the cap and the delay returned is 3 * max.
DelayReachedTheCap ==
    /\ delay # NoDelay
    /\ delayArgs.exponential
    /\ delayArgs.attempt = 3
    /\ delayArgs.max_delay > 0
    /\ delay = 3 * delayArgs.max_delay

\* C19: without exponential backoff the delay of an integer range satisfies
\* min <= delay <= max, whatever the attempt.
PlainDelayWithinRange ==
    (delay # NoDelay /\ ~delayArgs.exponential) =>
        (delayArgs.min_delay <= delay /\ delay <= delayArgs.max_delay)

\* A plain delay at a late attempt equals max, above min.
PlainDelayAtLateAttempt ==
    /\ delay # NoDelay
    /\ ~delayArgs.exponential
    /\ delayArgs.attempt >= 3
    /\ delayArgs.min_delay < delayArgs.max_delay
    /\ delay = delayArgs.max_delay

\* The smallest and the largest delay possible at an attempt of the range in hand.
Smallest(S) == CHOOSE x \in S : \A y \in S : x <= y
Largest(S) == CHOOSE x \in S : \A y \in S : y <= x
DelaysAt(attempt) ==
    get_retry_delay(delayArgs.min_delay, delayArgs.max_delay, attempt, TRUE)

\* C20: with exponential backoff, for attempts a < b the smallest and the
\* largest delay possible at b are at least those at a; for the range (5, 15)
\* every delay possible at attempt 1 is at most a delay of attempt 3 plus 10.
BackoffGrowsWithAttempt ==
    (delay # NoDelay /\ delayArgs.exponential) =>
        /\ delay \in DelaysAt(delayArgs.attempt)
        /\ \A a \in 1..(delayArgs.attempt - 1) :
              /\ Smallest(DelaysAt(a)) <= Smallest(DelaysAt(delayArgs.attempt))
              /\ Largest(DelaysAt(a)) <= Largest(DelaysAt(delayArgs.attempt))
        /\ (<<delayArgs.min_delay, delayArgs.max_delay>> = API_RETRY_DELAY
              /\ delayArgs.attempt = 3) =>
               \A first \in DelaysAt(1) : first <= delay + 10

\* The smallest delay of attempt 3 of the range (5, 15) has been returned.
ThirdAttemptOfApiRange ==
    /\ delay # NoDelay
    /\ delayArgs.exponential
    /\ <<delayArgs.min_delay, delayArgs.max_delay>> = API_RETRY_DELAY
    /\ delayArgs.attempt = 3
    /\ delay = 20

(***************************************************************************)
(* SpecRetry: the waits of the engine's loops and the report of a failure. *)
(***************************************************************************)
NETWORK_RETRY_DELAY == <<10, 30>>
DOWNLOAD_RETRY_DELAY == <<15, 45>>

\* The delay ranges of RetryConfig.
RetryDelayRanges == {NETWORK_RETRY_DELAY, API_RETRY_DELAY, DOWNLOAD_RETRY_DELAY}

\* The step sleeps before a retry in get_user_videos or download_video.
EngineLoopWaits ==
    /\ rLoop \in {"get_user_videos", "download_video"}
    /\ rSlept' # rSlept

\* C31: in get_user_videos and download_video the wait before a retry is a
\* value of get_retry_delay with exponential backoff for a delay range of
\* RetryConfig and the number of the attempt, hence at most three times the
\* maximum of that range.
EngineWaitsFollowBackoff ==
    [][EngineLoopWaits =>
          \E range \in RetryDelayRanges :
              /\ (rSlept' - rSlept) \in get_retry_delay(range[1], range[2], rAttempt, TRUE)
              /\ (rSlept' - rSlept) <= 3 * range[2]]_vars

\* The exception of the last call of the action, NoExc if it succeeded.
LastCallExc == rLog[CHOOSE i \in CallIndices : \A j \in CallIndices : j <= i].exc

\* The loop is through and its last call of the action failed.
GaveUp == Finished /\ CallIndices # {} /\ LastCallExc # NoExc

\* C32: a retry loop whose last call failed reports the failure: the loops
\* of get_user_videos and download_video return the classified error of that
\* call, the wrappers of retry_on_network_error and retry_on_api_error raise
\* its exception.
GivingUpReportsFailure ==
    GaveUp =>
        CASE rLoop \in {"get_user_videos", "download_video"} ->
                /\ rStatus = "returned"
                /\ rResult.error = handle_error(LastCallExc)
                /\ rResult.error.error_type = analyze_error(LastCallExc.msg)
          [] rLoop \in {"retry_on_network_error", "retry_on_api_error"} ->
                /\ rStatus = "raised"
                /\ rResult.exc = LastCallExc
          [] OTHER -> TRUE

(***************************************************************************)
(* Spec: failures that the retries of a fetch absorb.                      *)
(***************************************************************************)
\* The kinds is_retryable lets the engine's loops retry.
TransientKinds == {ErrorType.NETWORK, ErrorType.RATE_LIMIT}

\* get_user_videos or download_video has returned from a call of the
\* extractor that succeeded after at least one that failed.
Absorbed ==
    /\ rLoop \in {"get_user_videos", "download_video"}
    /\ rStatus = "returned"
    /\ Calls >= 2
    /\ LastCallExc = NoExc

\* C33: a list fetch or a download whose first k < 3 calls failed with network
\* or rate-limit errors and whose next call succeeded returns the result with
\* no error; monitor_user goes on as after a fetch without failures, and the
\* user is counted as failed only for the error of a loop that gave up.
TransientFailureAbsorbed ==
    /\ [](Absorbed =>
            /\ rResult.error = NoError
            /\ Calls <= EngineMaxRetries
            /\ \A i \in CallIndices :
                  rLog[i].exc # NoExc =>
                      handle_error(rLog[i].exc).error_type \in TransientKinds)
    /\ [][(pc = "fetching" /\ Absorbed /\ pc' # pc) =>
             \/ pc' = "filter" /\ fetched' = rResult.videos /\ ret' = ret
             \/ pc' = "monitored" /\ rResult.videos = <<>> /\ ret'.error = NoError]_vars
    /\ [][(pc = "item" /\ Absorbed /\ pc' # pc) =>
             /\ download_error' = download_error
             /\ downloaded' = downloaded + 1]_vars
    /\ [][(download_error' # download_error /\ download_error' # NoError) =>
             pc = "item" /\ GaveUp /\ download_error' = rResult.error]_vars
    /\ [][(ret'.error # ret.error /\ ret'.error # NoError) =>
             \/ pc = "fetching" /\ GaveUp /\ ret'.error = rResult.error
             \/ pc = "batch" /\ ret'.error = download_error]_vars
    /\ [][Len(failed_users') > Len(failed_users) =>
             pc = "monitored" /\ ret.error # NoError]_vars

\* The list fetch of a cycle succeeded at its third call, after a rate-limit
\* error and a network error.
ListFetchedAtThirdCall ==
    /\ pc = "fetching"
    /\ Absorbed
    /\ Calls = EngineMaxRetries
    /\ rLoop = "get_user_videos"
    /\ rResult.videos # <<>>
    /\ {handle_error(rLog[i].exc).error_type : i \in {j \in CallIndices : rLog[j].exc # NoExc}}
          = TransientKinds

(***************************************************************************)
(* SpecDaemon: the controller calls start_daemon, stop_daemon, get_status  *)
(* and is_running one after the other, on either platform, while the       *)
(* children of a start run and processes exit.                             *)
(***************************************************************************)
InitDaemon ==
    /\ InitManageIdle
    /\ InitHistoryIdle
    /\ InitConfigIdle
    /\ InitNotifyIdle
    /\ InitClassifyIdle
    /\ InitDelayIdle
    /\ InitRetryIdle
    /\ InitStore
    /\ InitLoopIdle
    /\ InitCycleIdle
    /\ platform \in {"posix", "nt"}
    /\ pid_file = NoPid
    /\ procs = [p \in Pids |-> "unborn"]
    /\ dpc = "idle"
    /\ pid = NoPid
    /\ poll_i = 0
    /\ signals = <<>>
    /\ dRet = NoReturnYet
    /\ dCalls = 0
    /\ foreground = {}

NextDaemon ==
    \/ IsRunning
    \/ StartBegin
    \/ StartSpawn
    \/ StartWrite
    \/ \E c \in Pids : ChildSecondFork(c)
    \/ \E g \in Pids : GrandchildWrite(g)
    \/ \E p \in Pids : ProcessExits(p)
    \/ MainAuto
    \/ \E f \in {Launcher, Auto} : ForegroundExits(f)
    \/ StopBegin
    \/ StopLookup
    \/ StopSignal
    \/ StopPoll
    \/ StopFinal
    \/ StopKill
    \/ StatusBegin
    \/ StatusInfo

SpecDaemon == InitDaemon /\ [][NextDaemon]_vars

\* The step is the return of a call of `op`.
Returns(op) == dCalls' = dCalls + 1 /\ dRet'.op = op

\* The pid file names a process that is gone.
Stale == pid_file # NoPid /\ ~Alive(pid_file)

\* The pid file names a running process.
Running == pid_file # NoPid /\ Alive(pid_file)

IsRunningSelfHeals ==
    [][(Returns("is_running") /\ ~dRet'.ok) => pid_file' = NoPid]_vars

\* C14: start_daemon, called while the pid file names a running process,
\* returns at once without a pid, leaves the pid file as it is and creates
\* no process.
StartRefusedWhileRunning ==
    [][(/\ dpc = "idle"
        /\ dpc' = "start_spawn" \/ Returns("start")
        /\ Running)
        => (/\ dpc' = "idle"
            /\ Returns("start")
            /\ ~dRet'.ok
            /\ dRet'.pid = NoPid
            /\ pid_file' = pid_file
            /\ procs' = procs)]_vars

\* start_daemon has refused: the daemon of an earlier start is running.
StartRefused ==
    /\ dRet.op = "start"
    /\ dRet.msg = "already running"
    /\ dRet.pid = NoPid
    /\ Running
    /\ procs[pid_file] = "monitor"

Occurrences(log, ev) == Cardinality({k \in 1..Len(log) : log[k] = ev})

\* The whole wait: the signal, GraceIterations polls that found the process
\* alive, the check of line 156.
FullGraceWindow ==
    <<"SIGTERM">> \o [k \in 1..GraceIterations |-> "poll"] \o <<"check">>

\* C15: stop_daemon on a daemon that is not running signals nothing and
\* returns False; on a running daemon the first thing it sends is the
\* graceful signal, it then polls at most 10 times, and it kills only a
\* process found alive at each of the 10 polls and after them: a process that
\* exited during the wait is not killed, and no kill precedes the signal.
StopTerminatesThenKills ==
    [][/\ (dpc = "idle" /\ (dpc' = "stop_lookup" \/ Returns("stop")) /\ ~Running)
            => (Returns("stop") /\ ~dRet'.ok /\ signals' = <<>>)
       /\ (signals' # signals /\ signals' # <<>>)
            => LET ev == signals'[Len(signals')] IN
               /\ ev = "SIGTERM" => signals = <<>>
               /\ ev # "SIGTERM" => signals[1] = "SIGTERM"
               /\ Occurrences(signals', "poll") <= 10
               /\ ev = "KILL" => (signals = FullGraceWindow /\ Alive(pid))]_vars

\* stop_daemon has killed a process that outlived the whole wait.
KilledAfterGraceWindow ==
    /\ dRet.op = "stop"
    /\ dRet.ok
    /\ signals = FullGraceWindow \o <<"KILL">>
    /\ pid_file = NoPid

\* The controller is inside stop_daemon, past the test of is_running.
InStop == dpc \in {"stop_lookup", "stop_signal", "stop_poll", "stop_final", "stop_kill"}

\* C16: when stop_daemon was called on a pid file naming a running process,
\* there is no pid file when it returns, whatever the path: the process
\* exited, was killed, vanished, or a signal or a poll raised.
StopAlwaysClearsRecord ==
    [][(InStop /\ Returns("stop")) => pid_file' = NoPid]_vars

\* The processes that run the monitoring loop on the store: the daemons, and
\* the foreground runs of main.
Daemons == {p \in Pids : procs[p] = "monitor"}
Engines == {<<"daemon", p>> : p \in Daemons} \cup {<<"main", f>> : f \in foreground}

\* C34: while a daemon is alive it is the only process that runs the
\* monitoring loop on the store: there is no second daemon and no foreground
\* run.
OneEngineWhileDaemonAlive ==
    Daemons # {} => Cardinality(Engines) = 1

\* The one call made so far is a start on Unix that returned a pid, and the
\* second child of that start has written its pid too.
StartedAndBothWrote ==
    /\ platform = "posix"
    /\ dCalls = 1
    /\ dpc = "idle"
    /\ dRet.op = "start" /\ dRet.ok
    /\ Daemons # {}

\* C35: once start_daemon has returned a pid on Unix and the second child has
\* written the pid file as well, the pid file names the process that runs
\* the monitoring loop.
PidFileNamesTheDaemon ==
    StartedAndBothWrote => pid_file \in Daemons

\* C36: when the fork or Popen of start_daemon fails, the call returns the
\* failure, the pid file and the processes are as before, and no process
\* begins to run the monitoring loop, the launcher included.
FailedStartStartsNothing ==
    [][(dpc = "start_spawn" /\ Returns("start") /\ ~dRet'.ok) =>
          /\ pid_file' = pid_file
          /\ procs' = procs
          /\ Engines' = Engines]_vars

(***************************************************************************)
(* SpecNotify: a TikTokMonitor is constructed over a store with one user,  *)
(* loads the notification preference and runs one iteration of             *)
(* start_monitoring; plyer is present or not, the stored preference is on  *)
(* or off, and every delivery may raise.                                   *)
(***************************************************************************)
\* TikTokMonitor.__init__: _load_notification_preference, lines 93-112, with
\* notifier.enable() and notifier.disable().
LoadNotificationPreference ==
    /\ pc = "construct"
    /\ \E stored \in BOOLEAN :
          notifier_enabled' = (stored /\ NOTIFICATIONS_AVAILABLE)
    /\ pc' = "users"
    /\ UNCHANGED <<NOTIFICATIONS_AVAILABLE, delivered, send_ret>>
    /\ UNCHANGED <<users, max_iterations, iteration, consecutive_all_failed, uidx,
                   total_downloaded, failed_users, non_retryable_errors, sent>>
    /\ UNCHANGED <<classifyVars, configVars, delayVars, daemonVars, manageVars, historyVars, retryVars, storeVars, cycleVars>>

InitNotify ==
    /\ InitConfigIdle
    /\ InitClassifyIdle
    /\ InitDelayIdle
    /\ InitDaemonIdle
    /\ InitManageIdle
    /\ InitHistoryIdle
    /\ InitRetryIdle
    /\ InitCycleIdle
    /\ notifier_enabled = FALSE
    /\ NOTIFICATIONS_AVAILABLE \in BOOLEAN
    /\ delivered = <<>>
    /\ send_ret = FALSE
    /\ clock = 1
    /\ monitored_users = ("u1" :> [last_check |-> 0, last_video_timestamp |-> 0,
                                   total_videos |-> 0, enabled |-> 1])
    /\ videos = {}
    /\ saves = [id \in VideoIds |-> NoRow]
    /\ pc = "construct" /\ users = <<"u1">> /\ max_iterations = 1 /\ iteration = 1
    /\ consecutive_all_failed = 0 /\ uidx = 1 /\ total_downloaded = 0
    /\ failed_users = <<>> /\ non_retryable_errors = <<>> /\ sent = <<>>

NextNotify ==
    \/ LoadNotificationPreference
    \/ CheckUser
    \/ GetUserVideosAttempt
    \/ FetchFailed
    \/ NoVideos
    \/ VideosFound
    \/ Filter
    \/ DownloadNext
    \/ DownloadVideoAttempt
    \/ ItemFailed
    \/ ItemSaved
    \/ Persist
    \/ UserChecked
    \/ StopMonitor
    \/ EndIteration

SpecNotify == InitNotify /\ [][NextNotify]_vars

\* The step saves a downloaded video and calls notify_video.
SavesItem == pc = "item" /\ pc' = "batch" /\ downloaded' = downloaded + 1

\* The step calls notifier.send: for a saved video, or for the stop.
CallsSend == SavesItem \/ sent' # sent

\* C21: the notifier is disabled when constructed; send while disabled,
\* while plyer is absent, or when the delivery raises shows nothing and
\* returns False, and the step goes on as with a delivery: the video is
\* saved and counted, the loop moves to the next video, the stop is reached,
\* and the store changes as the cycle alone prescribes.
NotifierNeverInterferes ==
    /\ ~notifier_enabled
    /\ [][/\ delivered' # delivered
               => (CallsSend /\ notifier_enabled /\ NOTIFICATIONS_AVAILABLE)
          /\ (CallsSend /\ (~notifier_enabled \/ ~NOTIFICATIONS_AVAILABLE))
               => (delivered' = delivered /\ ~send_ret')
          /\ (CallsSend /\ delivered' = delivered) => ~send_ret'
          /\ SavesItem
               => /\ videos' = InsertOrReplace(videos, VideoRow(rResult.info))
                  /\ monitored_users' = monitored_users
                  /\ vidx' = vidx + 1
                  /\ newest_timestamp' = Max(newest_timestamp, rResult.info.timestamp)
          /\ sent' # sent
               => (pc' = "stopped" /\ videos' = videos
                   /\ monitored_users' = monitored_users)]_vars

\* With notifications enabled every delivery raised, and the cycle has
\* returned its two videos and advanced the watermark.
CycleCompleteThoughDeliveriesRaised ==
    /\ notifier_enabled
    /\ NOTIFICATIONS_AVAILABLE
    /\ delivered = <<>>
    /\ ~send_ret
    /\ pc = "monitored"
    /\ ret.count = 2
    /\ Cardinality(videos) = 2
    /\ monitored_users["u1"].last_video_timestamp = 2

(***************************************************************************)
(* SpecCycle: the run of SpecNotify under progress.  start_monitoring runs *)
(* in one thread and every loop in it is bounded (the for loops over users *)
(* and new videos, the retry loops by max_retries, every sleep is finite), *)
(* so a step that can be taken is taken.                                   *)
(***************************************************************************)
SpecCycle == InitNotify /\ [][NextNotify]_vars /\ WF_vars(NextNotify)

\* The download loop starts on a batch of at least k new videos.
BatchStartsWith(k) == pc = "batch" /\ vidx = 1 /\ Len(new_videos) >= k

\* download_video is running for the k-th new video.
Attempting(k) ==
    /\ pc = "item" /\ vidx = k
    /\ rLoop = "download_video"
    /\ rArg.video = new_videos[k]

\* C28: the download loop takes the new videos in the order of the list, one
\* call of download_video each, whatever the outcome of the earlier calls:
\* the index moves by one after a call, failed or not, the list does not
\* change, every video of the batch comes to be attempted, and the cycle
\* comes to the update of the store after the last one.
BatchAttemptsEveryItemOnce ==
    /\ [][(pc = "batch" /\ pc' = "item")
             => vidx <= Len(new_videos) /\ vidx' = vidx /\ Attempting(vidx)']_vars
    /\ [][(pc = "item" /\ pc' = "item") => vidx' = vidx /\ rArg' = rArg]_vars
    /\ [][(pc = "item" /\ pc' = "batch") => vidx' = vidx + 1]_vars
    /\ [][(InBatch /\ InBatch') => new_videos' = new_videos]_vars
    /\ [][(pc = "batch" /\ pc' = "monitored") => vidx = Len(new_videos) + 1]_vars
    /\ \A k \in 1..MaxVideos : BatchStartsWith(k) ~> Attempting(k)
    /\ (pc = "batch") ~> (pc = "monitored")

\* The first download of a batch of two failed and the second is attempted.
SecondAttemptedAfterFailure ==
    /\ Attempting(2)
    /\ Len(new_videos) = 2
    /\ download_error # NoError
    /\ downloaded = 0

(***************************************************************************)
(* SpecTerminate: start_monitoring called on a store of registered users,  *)
(* with no other process writing the store, under the progress of the      *)
(* engine: every call of the extractor returns or raises, every sleep      *)
(* ends.                                                                   *)
(***************************************************************************)
InitTerminate ==
    /\ InitConfigIdle
    /\ InitNotifyIdle
    /\ InitDaemonIdle
    /\ InitManageIdle
    /\ InitHistoryIdle
    /\ InitDelayIdle
    /\ InitClassifyIdle
    /\ InitRetryIdle
    /\ InitLoopIdle
    /\ InitCycleIdle
    /\ videos = {}
    /\ clock = 0
    /\ saves = [id \in VideoIds |-> NoRow]
    /\ \E enabled \in [Usernames -> {0, 1}] :
          monitored_users = [u \in Usernames |-> [NewUserRow EXCEPT !.enabled = enabled[u]]]

NextTerminate ==
    \/ StartMonitoring
    \/ CheckUser
    \/ GetUserVideosAttempt
    \/ FetchFailed
    \/ NoVideos
    \/ VideosFound
    \/ Filter
    \/ DownloadNext
    \/ DownloadVideoAttempt
    \/ ItemFailed
    \/ ItemSaved
    \/ Persist
    \/ UserChecked
    \/ StopMonitor
    \/ EndIteration

SpecTerminate == InitTerminate /\ [][NextTerminate]_vars /\ WF_vars(NextTerminate)

\* start_monitoring has returned: the breaker stopped it, or the limit of
\* iterations was reached.
Terminated == pc \in {"stopped", "done"}

\* start_monitoring(max_iterations = n) runs with n >= 1 on a list of users
\* that is not empty.
BoundedRun == pc \notin {"idle", "construct"} /\ max_iterations >= 1 /\ users # <<>>

\* C38: with max_iterations = n >= 1 and a list of users that is not empty,
\* start_monitoring returns, in no more than n iterations; a retry loop of the
\* engine calls the extractor at most three times and the download loop
\* stays within its batch.
StartMonitoringTerminates ==
    /\ [](BoundedRun => iteration <= max_iterations)
    /\ [](rLoop \in {"get_user_videos", "download_video"} =>
             Calls <= EngineMaxRetries /\ rAttempt <= EngineMaxRetries)
    /\ [](InBatch => vidx <= Len(new_videos) + 1 /\ Len(new_videos) <= Len(fetched))
    /\ [][Terminated => pc' = pc]_vars
    /\ BoundedRun ~> Terminated

\* The run of two iterations over two users ended at the limit, not by the
\* breaker.
TwoIterationsOverTwoUsersDone ==
    /\ pc = "done"
    /\ max_iterations = 2
    /\ iteration = 2
    /\ Len(users) = 2
    /\ sent = <<>>

(***************************************************************************)
(* SpecConfig: merge_config applied to every pair of two-level mappings.   *)
(***************************************************************************)
InitConfig ==
    /\ InitClassifyIdle
    /\ InitNotifyIdle
    /\ InitDelayIdle
    /\ InitDaemonIdle
    /\ InitManageIdle
    /\ InitHistoryIdle
    /\ InitRetryIdle
    /\ InitStore
    /\ InitLoopIdle
    /\ InitCycleIdle
    /\ default_config \in Configs("default")
    /\ user_config \in Configs("user")
    /\ merged = NotMerged

NextConfig == MergeConfig

SpecConfig == InitConfig /\ [][NextConfig]_vars

\* merge_config has returned (the merge of two empty mappings aside).
Merged == merged # NotMerged

\* C22: in the mapping merge_config returns, a key the user gives has the
\* user's value, inside a section of both mappings key by key; a key the user
\* does not give keeps the default; a section of the user alone is added.
MergeOverridesAndKeepsDefaults ==
    Merged =>
        \A k \in SectionKeys :
            LET d == default_config[k]
                u == user_config[k]
                r == merged[k]
            IN /\ u.kind = "absent" => r = d
               /\ (u.kind # "absent" /\ ~(d.kind = "dict" /\ u.kind = "dict")) => r = u
               /\ (d.kind = "dict" /\ u.kind = "dict") =>
                     /\ r.kind = "dict"
                     /\ \A j \in ItemKeys :
                           r.items[j] = IF u.items[j] # Absent THEN u.items[j]
                                        ELSE d.items[j]

\* The case of the test: key1 overridden, key2 kept, new_section added.
MergedTheTestCase ==
    /\ Merged
    /\ default_config["section"].items = [k \in ItemKeys |-> "default"]
    /\ default_config["new_section"] = AbsentNode
    /\ user_config["section"].kind = "dict"
    /\ user_config["section"].items = ("key1" :> "user" @@ "key2" :> Absent)
    /\ user_config["new_section"].kind = "dict"
    /\ merged["section"].items = ("key1" :> "user" @@ "key2" :> "default")
    /\ merged["new_section"] = user_config["new_section"]

(***************************************************************************)
(* SpecManage: the management of users called in any order on a store that *)
(* earlier cycles have filled: add_user_to_monitor,                        *)
(* remove_user_from_monitor, enable_user, delete_user_permanently.         *)
(***************************************************************************)
Call(op, u, value, n) == [op |-> op, username |-> u, ret |-> value, video_count |-> n]

\* The rows of a user in table videos: SELECT ... FROM videos WHERE author = ?
VideosOf(table, u) == {r \in table : r.author = u}

\* A variant of add_user_to_monitor with INSERT OR REPLACE.
add_user_to_monitor_replacing(u) ==
    /\ monitored_users' = [x \in DOMAIN monitored_users \cup {u} |->
                              IF x = u THEN NewUserRow ELSE monitored_users[x]]
    /\ mCall' = Call("add", u, TRUE, 0)
    /\ UNCHANGED <<videos, clock, saves>>
    /\ UNCHANGED <<classifyVars, configVars, notifyVars, daemonVars, historyVars, delayVars, retryVars, loopVars, cycleVars>>

\* add_user_to_monitor(username), lines 154-169: INSERT OR IGNORE, True.
add_user_to_monitor(u) ==
    /\ monitored_users' =
         IF u \in DOMAIN monitored_users THEN monitored_users
         ELSE [x \in DOMAIN monitored_users \cup {u} |->
                  IF x = u THEN NewUserRow ELSE monitored_users[x]]
    /\ mCall' = Call("add", u, TRUE, 0)
    /\ UNCHANGED <<videos, clock, saves>>
    /\ UNCHANGED <<classifyVars, configVars, notifyVars, daemonVars, historyVars, delayVars, retryVars, loopVars, cycleVars>>

\* remove_user_from_monitor(username), lines 174-193: False for a user that
\* is not in the table, else enabled = 0 and True.
remove_user_from_monitor(u) ==
    /\ IF u \in DOMAIN monitored_users
       THEN /\ monitored_users' = [monitored_users EXCEPT ![u].enabled = 0]
            /\ mCall' = Call("remove", u, TRUE, 0)
       ELSE /\ UNCHANGED monitored_users
            /\ mCall' = Call("remove", u, FALSE, 0)
    /\ UNCHANGED <<videos, clock, saves>>
    /\ UNCHANGED <<classifyVars, configVars, notifyVars, daemonVars, historyVars, delayVars, retryVars, loopVars, cycleVars>>

\* enable_user(username), lines 224-242: True when the UPDATE met a row.
enable_user(u) ==
    /\ IF u \in DOMAIN monitored_users
       THEN /\ monitored_users' = [monitored_users EXCEPT ![u].enabled = 1]
            /\ mCall' = Call("enable", u, TRUE, 0)
       ELSE /\ UNCHANGED monitored_users
            /\ mCall' = Call("enable", u, FALSE, 0)
    /\ UNCHANGED <<videos, clock, saves>>
    /\ UNCHANGED <<classifyVars, configVars, notifyVars, daemonVars, historyVars, delayVars, retryVars, loopVars, cycleVars>>

\* A variant of delete_user_permanently that deletes the user only.
delete_user_keeping_videos(u, confirm) ==
    LET video_count == Cardinality(VideosOf(videos, u)) IN
    /\ IF video_count > 0 /\ ~confirm
       THEN /\ mCall' = Call("delete", u, FALSE, video_count)
            /\ UNCHANGED <<monitored_users, videos>>
       ELSE /\ videos' = videos
            /\ monitored_users' = [x \in DOMAIN monitored_users \ {u} |-> monitored_users[x]]
            /\ mCall' = Call("delete", u, TRUE, video_count)
    /\ UNCHANGED <<clock, saves>>
    /\ UNCHANGED <<classifyVars, configVars, notifyVars, daemonVars, historyVars, delayVars, retryVars, loopVars, cycleVars>>

\* delete_user_permanently(username), lines 195-222: with videos in the table
\* the user is asked; `confirm` is the answer y.  DELETE FROM videos WHERE
\* author = ?, DELETE FROM monitored_users WHERE username = ?.
delete_user_permanently(u, confirm) ==
    LET video_count == Cardinality(VideosOf(videos, u)) IN
    /\ IF video_count > 0 /\ ~confirm
       THEN /\ mCall' = Call("delete", u, FALSE, video_count)
            /\ UNCHANGED <<monitored_users, videos>>
       ELSE /\ videos' = videos \ VideosOf(videos, u)
            /\ monitored_users' = [x \in DOMAIN monitored_users \ {u} |-> monitored_users[x]]
            /\ mCall' = Call("delete", u, TRUE, video_count)
    /\ UNCHANGED <<clock, saves>>
    /\ UNCHANGED <<classifyVars, configVars, notifyVars, daemonVars, historyVars, delayVars, retryVars, loopVars, cycleVars>>

\* The store of a user after cycles that saved the videos `saved` of its
\* profile at clock 1: one row per video, the watermark at the newest of
\* them, total_videos their number.
RowAfter(saved, enabled) ==
    [last_check |-> 1,
     last_video_timestamp |-> Largest({e.timestamp : e \in saved} \cup {0}),
     total_videos |-> Cardinality(saved),
     enabled |-> enabled]

RowsSaved(u, saved) ==
    {[id |-> e.id, author |-> u, upload_timestamp |-> e.timestamp, download_date |-> 1] :
        e \in saved}

InitManage ==
    /\ InitConfigIdle
    /\ InitNotifyIdle
    /\ InitDaemonIdle
    /\ InitDelayIdle
    /\ InitClassifyIdle
    /\ InitRetryIdle
    /\ InitLoopIdle
    /\ InitCycleIdle
    /\ mCall = NoCall
    /\ InitHistoryIdle
    /\ clock = 2
    /\ saves = [id \in VideoIds |-> NoRow]
    /\ \E registered \in SUBSET Usernames :
         \E saved \in [registered -> SUBSET VideoIds] :
           \E enabled \in [registered -> {0, 1}] :
             /\ \A u \in registered : saved[u] \subseteq {e.id : e \in Entries(u)}
             /\ monitored_users =
                  [u \in registered |->
                     RowAfter({e \in Entries(u) : e.id \in saved[u]}, enabled[u])]
             /\ videos = UNION {RowsSaved(u, {e \in Entries(u) : e.id \in saved[u]}) :
                                   u \in registered}

NextManage ==
    \/ \E u \in Usernames : add_user_to_monitor(u)
    \/ \E u \in Usernames : remove_user_from_monitor(u)
    \/ \E u \in Usernames : enable_user(u)
    \/ \E u \in Usernames, confirm \in BOOLEAN : delete_user_permanently(u, confirm)

SpecManage == InitManage /\ [][NextManage]_vars

\* The step is a call of `op` that returned `value`.
Manages(op, value) == mCall' # mCall /\ mCall'.op = op /\ mCall'.ret = value

DedupState(row) == <<row.last_video_timestamp, row.total_videos>>

\* C39: add_user_to_monitor on a registered user changes nothing in the
\* store; remove_user_from_monitor and enable_user change `enabled` of the
\* user only, to 0 and to 1, and return True; on a user that is not
\* registered both return False and change nothing; none of the three
\* touches table videos.
ManagementKeepsDedupState ==
    [][\A op \in {"add", "remove", "enable"} : \A value \in BOOLEAN :
          Manages(op, value) =>
             LET u == mCall'.username IN
             /\ videos' = videos
             /\ \A x \in DOMAIN monitored_users :
                   /\ x \in DOMAIN monitored_users'
                   /\ DedupState(monitored_users'[x]) = DedupState(monitored_users[x])
                   /\ (x # u \/ op = "add") => monitored_users'[x] = monitored_users[x]
             /\ u \notin DOMAIN monitored_users =>
                   /\ op = "add" => monitored_users'[u] = NewUserRow /\ value
                   /\ op # "add" => ~value /\ monitored_users' = monitored_users
             /\ (u \in DOMAIN monitored_users /\ op # "add") =>
                   /\ value
                   /\ monitored_users' =
                        [monitored_users EXCEPT ![u].enabled = IF op = "enable" THEN 1 ELSE 0]]_vars

\* enable_user("u1") has returned True on u1 with three videos retrieved:
\* the row is the one the cycles left, enabled.
ReenabledWithStateIntact ==
    /\ mCall = Call("enable", "u1", TRUE, 0)
    /\ "u1" \in DOMAIN monitored_users
    /\ monitored_users["u1"] = RowAfter(Entries("u1"), 1)
    /\ Cardinality(VideosOf(videos, "u1")) = 3

(***************************************************************************)
(* SpecRecheck: the program started again and again on the database of one *)
(* enabled user, with the history of the batches: which items failed while *)
(* the batch stored a newer or equal timestamp, and which failed above all *)
(* that the batch stored.                                                  *)
(***************************************************************************)
MaxRuns == 2

\* The items of the batch that save_video_metadata stored in this cycle, and
\* those whose download_video returned an error.
StoredOfBatch == {v \in {new_videos[i] : i \in 1..Len(new_videos)} :
                     \E r \in SavedThisCycle : r.id = v.id}
FailedOfBatch == {new_videos[i] : i \in 1..Len(new_videos)} \ StoredOfBatch

\* The ids the listing of this cycle holds.
ListedIds == {fetched[i].id : i \in 1..Len(fetched)}

\* The end of a batch, with the history of its failed items.
PersistNoting ==
    /\ PersistBatch
    /\ skipped' = skipped \cup
                    {b.id : b \in {f \in FailedOfBatch :
                                      /\ f.timestamp > 0
                                      /\ \E a \in StoredOfBatch : f.timestamp <= a.timestamp}}
    /\ pending' = (pending \ ListedIds) \cup
                    {b.id : b \in {f \in FailedOfBatch :
                                      \A a \in StoredOfBatch : f.timestamp > a.timestamp}}
    /\ UNCHANGED runs

\* main, lines 1028-1062: the program is started again on the database the
\* earlier run left; start_monitoring begins with fresh locals.
RunAgain ==
    /\ pc \in {"done", "stopped"}
    /\ runs < MaxRuns
    /\ runs' = runs + 1
    /\ pc' = "idle" /\ users' = <<>> /\ max_iterations' = 0 /\ iteration' = 0
    /\ consecutive_all_failed' = 0 /\ uidx' = 0 /\ total_downloaded' = 0
    /\ failed_users' = <<>> /\ non_retryable_errors' = <<>> /\ sent' = <<>>
    /\ UNCHANGED <<skipped, pending>>
    /\ UNCHANGED <<classifyVars, configVars, notifyVars, daemonVars, manageVars, delayVars, retryVars, storeVars, cycleVars>>

\* The database after add_user_to_monitor("u1") on an empty one.
InitRecheck ==
    /\ InitConfigIdle
    /\ InitNotifyIdle
    /\ InitDaemonIdle
    /\ InitManageIdle
    /\ InitHistoryIdle
    /\ InitDelayIdle
    /\ InitClassifyIdle
    /\ InitRetryIdle
    /\ InitLoopIdle
    /\ InitCycleIdle
    /\ videos = {}
    /\ clock = 0
    /\ saves = [id \in VideoIds |-> NoRow]
    /\ monitored_users = [u \in {"u1"} |-> NewUserRow]

NextRecheck ==
    \/ StartMonitoring
    \/ CheckUser
    \/ GetUserVideosAttempt
    \/ FetchFailed
    \/ NoVideos
    \/ VideosFound
    \/ Filter
    \/ DownloadNext
    \/ DownloadVideoAttempt
    \/ ItemFailed
    \/ ItemSaved
    \/ PersistNoting
    \/ UserChecked
    \/ StopMonitor
    \/ EndIteration
    \/ RunAgain

SpecRecheck == InitRecheck /\ [][NextRecheck]_vars

\* The batch stored an item: the watermark written at its end is at least
\* the timestamp of every item stored.
WatermarkCoversStored ==
    [][pc = "batch" /\ pc' = "monitored" =>
          \A a \in StoredOfBatch : Watermark(monitored_users', username) >= a.timestamp]_vars

\* An item that failed while its batch stored a newer or equal timestamp is
\* not selected by the filter of any later cycle.
SkippedNeverSelected ==
    [][pc = "filter" /\ pc' # "filter" =>
          \A i \in 1..Len(new_videos') : new_videos'[i].id \notin skipped]_vars

\* An item that failed above all that its batch stored is selected by the
\* filter of the next cycle that lists it.
PendingSelectedWhenListed ==
    [][pc = "filter" /\ pc' # "filter" =>
          \A id \in pending \cap ListedIds :
             \E i \in 1..Len(new_videos') : new_videos'[i].id = id]_vars

\* C40: an item stored in a batch moves the watermark to its timestamp or
\* above, so that an item of the batch that failed with a positive timestamp
\* not above it is never selected again; an item that failed with a timestamp
\* above all that its batch stored is selected again by the next cycle that
\* lists it.
FailedItemsFollowTheWatermark ==
    /\ WatermarkCoversStored
    /\ SkippedNeverSelected
    /\ PendingSelectedWhenListed

====
